---------------------------- MODULE Spec2Model ----------------------------
(***************************************************************************)
(* Model of the keep-vs-sell decision engine of rental_sale_calculator     *)
(* (src/src/lib/sellDecision.ts).                                          *)
(*                                                                         *)
(* JavaScript numbers are modelled as exact rationals [n |-> numerator,    *)
(* d |-> denominator] in lowest terms with d > 0.  A record with d = 0     *)
(* stands for a non-finite number (NaN, +Infinity, -Infinity), which is    *)
(* what Number.isFinite rejects.  The inputs are chosen so that every      *)
(* intermediate value stays well inside TLC's integer range.               *)
(***************************************************************************)
EXTENDS Integers, Sequences, FiniteSets, TLC

(***************************************************************************)
(* Bounds of the model.                                                    *)
(***************************************************************************)
\* Largest distance, in years, between the youngest client age and the
\* furthest planning age that is tried.
MaxSpan == 3

(***************************************************************************)
(* Numbers.                                                                *)
(***************************************************************************)
Abs(x) == IF x < 0 THEN -x ELSE x

RECURSIVE GCD(_, _)
GCD(a, b) == IF b = 0 THEN a ELSE GCD(b, a % b)

\* The rational n/d (d # 0) in lowest terms with a positive denominator.
Norm(n, d) ==
    LET g == GCD(Abs(n), Abs(d))
        s == IF d < 0 THEN -1 ELSE 1
    IN  [n |-> s * (n \div g), d |-> s * (d \div g)]

Rat(n, d) == Norm(n, d)
Num(k) == [n |-> k, d |-> 1]
Zero == Num(0)
One == Num(1)
\* Number.NaN and Number.NEGATIVE_INFINITY.
NaN == [n |-> 0, d |-> 0]
NEGATIVE_INFINITY == [n |-> -1, d |-> 0]

\* Number.isFinite
IsFinite(x) == x.d # 0

RNeg(a) == [n |-> -a.n, d |-> a.d]

RAdd(a, b) ==
    LET g == GCD(a.d, b.d)
        l == (a.d \div g) * b.d
    IN  Norm(a.n * (l \div a.d) + b.n * (l \div b.d), l)

RSub(a, b) == RAdd(a, RNeg(b))

RMul(a, b) ==
    LET g1 == GCD(Abs(a.n), b.d)
        g2 == GCD(Abs(b.n), a.d)
    IN  [n |-> (a.n \div g1) * (b.n \div g2), d |-> (a.d \div g2) * (b.d \div g1)]

\* 1/b; dividing by zero gives a non-finite number, as in JavaScript.
RInv(b) ==
    IF b.n = 0 THEN [n |-> 1, d |-> 0]
    ELSE IF b.n < 0 THEN [n |-> -b.d, d |-> -b.n]
    ELSE [n |-> b.d, d |-> b.n]

RDiv(a, b) == RMul(a, RInv(b))

\* a < b.  NEGATIVE_INFINITY is below every finite number.
RLt(a, b) ==
    LET g == GCD(a.d, b.d)
    IN  IF g = 0 THEN a.n < b.n
        ELSE a.n * (b.d \div g) < b.n * (a.d \div g)

RLeq(a, b) == a = b \/ RLt(a, b)
RGt(a, b) == RLt(b, a)
RGeq(a, b) == RLeq(b, a)

\* Math.max and Math.abs on numbers.
MathMax(a, b) == IF RLt(a, b) THEN b ELSE a
MathAbs(a) == [n |-> Abs(a.n), d |-> a.d]

\* Math.max on integers (ages, month counts).
IntMax(a, b) == IF a < b THEN b ELSE a

\* Math.round: the nearest integer, halves rounded towards +Infinity.
MathRound(x) == (2 * x.n + x.d) \div (2 * x.d)

\* Math.pow(base, k) for an integer exponent k >= 0.
RECURSIVE MathPow(_, _)
MathPow(base, k) == IF k = 0 THEN One ELSE RMul(base, MathPow(base, k - 1))

\* x percent as a fraction: x / 100.
Hundred == Num(100)

(***************************************************************************)
(* Helpers of sellDecision.ts.                                             *)
(***************************************************************************)
safeNumber(value) == IF IsFinite(value) THEN value ELSE Zero

calculateMonthlyPayment(loanAmount, annualRate, termYears) ==
    LET principal == safeNumber(loanAmount)
        months == IntMax(1, MathRound(RMul(safeNumber(termYears), Num(12))))
        monthlyRate == RDiv(RDiv(safeNumber(annualRate), Hundred), Num(12))
        factor == MathPow(RAdd(One, monthlyRate), months)
    IN  IF RLeq(principal, Zero) THEN Zero
        ELSE IF RLeq(monthlyRate, Zero) THEN RDiv(principal, Num(months))
        ELSE RDiv(RMul(RMul(principal, monthlyRate), factor), RSub(factor, One))

\* nYears is an integer year index, type is 0 or 1.
futureValue(annualRate, nYears, annualPayment, presentValue, type) ==
    LET rate == RDiv(safeNumber(annualRate), Hundred)
        factor == MathPow(RAdd(One, rate), nYears)
    IN  IF nYears = 0 THEN RNeg(presentValue)
        ELSE IF rate = Zero
             THEN RNeg(RAdd(presentValue, RMul(annualPayment, Num(nYears))))
        ELSE RNeg(RAdd(RMul(presentValue, factor),
                       RMul(RMul(annualPayment, RAdd(One, RMul(rate, Num(type)))),
                            RDiv(RSub(factor, One), rate))))

\* buildMortgageBalances without the floor of line 96.
buildMortgageBalances_Unfloored(startingBalance, annualRate, termYears, nYears) ==
    LET balance == MathMax(Zero, safeNumber(startingBalance))
        annualPayment ==
            RMul(calculateMonthlyPayment(balance, annualRate, termYears), Num(12))
    IN  [balances |->
            [k \in 1..nYears |->
                RNeg(futureValue(annualRate, k - 1, RNeg(annualPayment),
                                 balance, 1))],
         annualDebtService |-> annualPayment]

\* balances[k] is the code's balances[k - 1]: sequences start at 1.
buildMortgageBalances(startingBalance, annualRate, termYears, nYears) ==
    LET balance == MathMax(Zero, safeNumber(startingBalance))
        monthlyPayment == calculateMonthlyPayment(balance, annualRate, termYears)
        annualPayment == RMul(monthlyPayment, Num(12))
    IN  [balances |->
            [k \in 1..nYears |->
                MathMax(Zero,
                        RNeg(futureValue(annualRate, k - 1, RNeg(annualPayment),
                                         balance, 1)))],
         annualDebtService |-> annualPayment]

capitalGainsTax(value, acb, inclusionRate, taxRate) ==
    LET gain == RSub(safeNumber(value), safeNumber(acb))
    IN  RMul(RMul(gain, RDiv(safeNumber(inclusionRate), Hundred)),
             RDiv(safeNumber(taxRate), Hundred))

(***************************************************************************)
(* The pieces of calculateDecision's loop body and decision rule.          *)
(***************************************************************************)
\* Years without the planning-age year itself.
Years_Exclusive(cAge, pAge) == pAge - cAge

\* years = planningAge - clientAge + 1, on the rounded and clamped ages.
Years(cAge, pAge) == pAge - cAge + 1

\* 1 + afterTaxRoi
InvestmentGrowth(inp) ==
    RAdd(One,
         RMul(RDiv(safeNumber(inp.investmentAccountRoi), Hundred),
              RSub(One, RDiv(safeNumber(inp.marginalTaxRate), Hundred))))

\* value(t) = value(0) * (1 + growth%)^t
GrownValue(startValue, growthRate, t) ==
    RMul(startValue, MathPow(RAdd(One, RDiv(safeNumber(growthRate), Hundred)), t))

NetIncome(capRate, value) == RMul(RDiv(safeNumber(capRate), Hundred), value)

InterestExpense(mortgage, loanRate) ==
    RMul(mortgage, RDiv(safeNumber(loanRate), Hundred))

\* TaxPayable with a loss taxed at 0.
TaxPayable_Floored(netIncome, interestExpense, marginalTaxRate) ==
    MathMax(Zero,
            RMul(RSub(netIncome, interestExpense),
                 RDiv(safeNumber(marginalTaxRate), Hundred)))

TaxPayable(netIncome, interestExpense, marginalTaxRate) ==
    RMul(RSub(netIncome, interestExpense),
         RDiv(safeNumber(marginalTaxRate), Hundred))

\* CashFlow that forgets the debt service.
CashFlow_NoDebtService(netIncome, tax, annualDebtService) ==
    RSub(netIncome, tax)

CashFlow(netIncome, tax, annualDebtService) ==
    RSub(RSub(netIncome, tax), annualDebtService)

\* NextInvestment with a negative balance reset to 0 before it compounds.
NextInvestment_Floored(investment, growth, cashFlow) ==
    RAdd(RMul(MathMax(Zero, investment), growth), cashFlow)

NextInvestment(investment, growth, cashFlow) ==
    RAdd(RMul(investment, growth), cashFlow)

\* CurrentStrategyValue without the contingent capital-gains tax.
CurrentStrategyValue_NoGainsTax(value, mortgage, gainsTax, investment) ==
    RAdd(RSub(value, mortgage), investment)

CurrentStrategyValue(value, mortgage, gainsTax, investment) ==
    RAdd(RSub(RSub(value, mortgage), gainsTax), investment)

NewStrategyValue(value, mortgage, investment) ==
    RAdd(RSub(value, mortgage), investment)

\* PlanningIndex pointing at the first year.
PlanningIndex_First(nYears) == 1

\* The position of the planning-age entry: the code's years - 1, counted from 1.
PlanningIndex(nYears) == nYears

Threshold(currentStrategyValue, marginPercent) ==
    RMul(currentStrategyValue, RAdd(One, RDiv(marginPercent, Hundred)))

Decision(newStrategyValue, threshold) ==
    IF RGeq(newStrategyValue, threshold) THEN "YES" ELSE "NO"

\* breakEvenAge and peakDeltaAge are number | null: <<>> is null, <<a>> is a.
Null == <<>>
Some(a) == <<a>>

\* ScanPoint without the breakEvenAge === null test: the last crossing wins.
ScanPoint_LastCrossing(acc, point) ==
    LET higher == RGt(point.delta, acc.peakDeltaValue)
    IN  [breakEvenAge |->
             IF RGeq(point.delta, Zero) THEN <<point.age>> ELSE acc.breakEvenAge,
         peakDeltaValue |-> IF higher THEN point.delta ELSE acc.peakDeltaValue,
         peakDeltaAge |-> IF higher THEN <<point.age>> ELSE acc.peakDeltaAge]

\* ScanPoint comparing with >=: among equal maxima the last one wins.
ScanPoint_LastMaximum(acc, point) ==
    LET higher == RGeq(point.delta, acc.peakDeltaValue)
    IN  [breakEvenAge |->
             IF acc.breakEvenAge = <<>> /\ RGeq(point.delta, Zero)
             THEN <<point.age>> ELSE acc.breakEvenAge,
         peakDeltaValue |-> IF higher THEN point.delta ELSE acc.peakDeltaValue,
         peakDeltaAge |-> IF higher THEN <<point.age>> ELSE acc.peakDeltaAge]

\* One call of the series.forEach callback on the accumulators.
ScanPoint(acc, point) ==
    LET be == IF acc.breakEvenAge = Null /\ RGeq(point.delta, Zero)
              THEN Some(point.age) ELSE acc.breakEvenAge
        higher == RGt(point.delta, acc.peakDeltaValue)
    IN  [breakEvenAge |-> be,
         peakDeltaValue |-> IF higher THEN point.delta ELSE acc.peakDeltaValue,
         peakDeltaAge |-> IF higher THEN Some(point.age) ELSE acc.peakDeltaAge]

\* series.forEach over the first k points, in order.
RECURSIVE ScanSeries(_, _)
ScanSeries(points, k) ==
    IF k = 0
    THEN [breakEvenAge |-> Null,
          peakDeltaValue |-> NEGATIVE_INFINITY,
          peakDeltaAge |-> Null]
    ELSE ScanPoint(ScanSeries(points, k - 1), points[k])

\* Number.toLocaleString("en-US", currency USD, maximumFractionDigits 0):
\* a sign and the whole dollars, halves rounded away from zero.
FormatCurrency(x) ==
    LET m == MathAbs(x)
    IN  [sign |-> IF RLt(x, Zero) THEN "-" ELSE "",
         dollars |-> (2 * m.n + m.d) \div (2 * m.d)]

\* The template string: its wording, the formatted amount and the age.
DecisionReason(decision, deltaAtPlanning, pAge) ==
    IF decision = "YES"
    THEN [text |-> "New strategy exceeds current by",
          amount |-> FormatCurrency(deltaAtPlanning), age |-> pAge]
    ELSE [text |-> "Current strategy remains ahead by",
          amount |-> FormatCurrency(MathAbs(deltaAtPlanning)), age |-> pAge]

(***************************************************************************)
(* Inputs of the calls that are tried.                                     *)
(***************************************************************************)
\* Loan rate and amortization are tried in the pairs that keep the annuity
\* factor (1 + rate/1200)^months small.
LoanTerms ==
    { <<Zero, Num(2)>>, <<Zero, Rat(1, 12)>>, <<Hundred, Rat(1, 12)>> }

\* <<clientAge, planningAge>>: a planning age below the client age, the
\* furthest planning age, fractional ages that Math.round moves, and a
\* planning age that is not a number.
Ages ==
    { <<Num(70), Num(69)>>, <<Num(70), Num(70 + MaxSpan)>>,
      <<Rat(141, 2), Rat(143, 2)>>, <<Rat(141, 2), Num(70)>>,
      <<Num(70), NaN>> }

Inputs ==
    { [currentPropertyValue |-> Hundred,
       currentPropertyAcb |-> acb,
       currentMortgageBalance |-> mortgage,
       currentCapRate |-> capCurrent,
       currentGrowthRate |-> Zero,
       newCapRate |-> capNew,
       newGrowthRate |-> growthNew,
       marginalTaxRate |-> taxRate,
       capitalGainsInclusionRate |-> Num(50),
       realtorFeesPercent |-> Num(2),
       propertyTransferTaxPercent |-> Num(3),
       investmentAccountRoi |-> Hundred,
       loanRate |-> loan[1],
       loanAmortizationYears |-> loan[2],
       clientAge |-> ages[1],
       planningAge |-> ages[2],
       newLoanToValue |-> ltv,
       decisionMarginPercent |-> margin] :
        acb \in { Num(40), Num(160) },
        mortgage \in { Zero, Num(48), Num(240) },
        capCurrent \in { Zero, Num(10) },
        capNew \in { Zero, Num(20) },
        growthNew \in { Zero, Num(50) },
        taxRate \in { Zero, Num(50) },
        loan \in LoanTerms,
        ages \in Ages,
        ltv \in { Zero, Num(50), Hundred, Num(-100) },
        margin \in { Zero, Num(50) } }

(***************************************************************************)
(* State: one call of calculateDecision at a time.                         *)
(***************************************************************************)
VARIABLES
    input,                  \* the DecisionInputs argument of the call
    pc,                     \* "setup", "loop", "done"
    clientAge, planningAge, years,
    currentBalances, newBalances,
    netSaleProceeds, newPropertyValueStart, newMortgageStart,
    investmentGrowth,
    index,
    currentInvestment, newInvestment,
    currentSnapshots, newSnapshots, series,
    result,                 \* the DecisionResult once pc = "done"
    call,                   \* a call of another calculator: function, arguments
    callPc,                 \* "idle", "entry", "loop", "exit", "returned"
    locals,                 \* the local variables of a running calculateMortgage
    returned,               \* the value the call returned
    earlier,                \* the calls of calculateDecision that have returned
    hasWindow,              \* typeof window !== "undefined": a browser
    localStorage,           \* the item under the key of LocalStorageStub
    loaded,                 \* what the last load resolved with
    saved,                  \* per adapter, the argument of the last save
    wizard,                 \* the state of the Wizard component
    verdictPage             \* the state of the RentalPurchaseVerdict component

vars == << input, pc, clientAge, planningAge, years, currentBalances,
           newBalances, netSaleProceeds, newPropertyValueStart,
           newMortgageStart, investmentGrowth, index,
           currentInvestment, newInvestment, currentSnapshots, newSnapshots,
           series, result, call, callPc, locals, returned, earlier,
           hasWindow, localStorage, loaded, saved, wizard,
           verdictPage >>

callVars == << call, callPc, locals, returned >>

\* The state outside the calculators.
appVars == << earlier, hasWindow, localStorage, loaded, saved, wizard,
           verdictPage >>

storageVars == << hasWindow, localStorage, loaded, saved >>

uiVars == << wizard, verdictPage >>

decisionVars ==
    << input, pc, clientAge, planningAge, years, currentBalances, newBalances,
       netSaleProceeds, newPropertyValueStart, newMortgageStart,
       investmentGrowth, index, currentInvestment, newInvestment,
       currentSnapshots, newSnapshots, series, result >>

NoBalances == [balances |-> << >>, annualDebtService |-> Zero]
NoResult == [decision |-> "NONE"]
NoCall == [fn |-> "none"]
NoLocals == [period |-> 0]

\* undefined, or a value that is not there.
Absent == [absent |-> TRUE]
NotLoaded == [adapter |-> "none"]
NothingSaved == [NoopStorage |-> Absent, LocalStorageStub |-> Absent]
Unmounted == [mounted |-> FALSE]

\* No other calculator is running.
CallIdle ==
    /\ call = NoCall
    /\ callPc = "idle"
    /\ locals = NoLocals
    /\ returned = << >>

\* Nothing has happened outside the calculators.
StorageIdle ==
    /\ hasWindow = FALSE
    /\ localStorage = Absent
    /\ loaded = NotLoaded
    /\ saved = NothingSaved

\* No component is mounted.
UiIdle ==
    /\ wizard = Unmounted
    /\ verdictPage = Unmounted

AppIdle ==
    /\ earlier = { }
    /\ StorageIdle
    /\ UiIdle

\* The state at the entry of a call with argument inp.
Entry(inp) ==
    /\ input = inp
    /\ pc = "setup"
    /\ clientAge = 0
    /\ planningAge = 0
    /\ years = 0
    /\ currentBalances = NoBalances
    /\ newBalances = NoBalances
    /\ netSaleProceeds = Zero
    /\ newPropertyValueStart = Zero
    /\ newMortgageStart = Zero
    /\ investmentGrowth = One
    /\ index = 0
    /\ currentInvestment = Zero
    /\ newInvestment = Zero
    /\ currentSnapshots = << >>
    /\ newSnapshots = << >>
    /\ series = << >>
    /\ result = NoResult

Init == (\E inp \in Inputs : Entry(inp)) /\ CallIdle /\ AppIdle

\* Lines 124-140 with the capital-gains tax on the sale floored at 0.
NetSaleProceeds_TaxFloored(inp) ==
    LET initialCapitalGainsTax ==
            MathMax(Zero,
                    capitalGainsTax(inp.currentPropertyValue,
                                    inp.currentPropertyAcb,
                                    inp.capitalGainsInclusionRate,
                                    inp.marginalTaxRate))
        totalSellCostsPercent ==
            RAdd(safeNumber(inp.realtorFeesPercent),
                 safeNumber(inp.propertyTransferTaxPercent))
        saleCosts ==
            RMul(RDiv(totalSellCostsPercent, Hundred),
                 safeNumber(inp.currentPropertyValue))
    IN  MathMax(Zero,
                RSub(RSub(RSub(safeNumber(inp.currentPropertyValue),
                               safeNumber(inp.currentMortgageBalance)),
                          initialCapitalGainsTax),
                     saleCosts))

\* Lines 124-140: what the sale leaves after the mortgage, the immediate
\* capital-gains tax and the selling costs.
NetSaleProceeds(inp) ==
    LET initialCapitalGainsTax ==
            capitalGainsTax(inp.currentPropertyValue, inp.currentPropertyAcb,
                            inp.capitalGainsInclusionRate, inp.marginalTaxRate)
        totalSellCostsPercent ==
            RAdd(safeNumber(inp.realtorFeesPercent),
                 safeNumber(inp.propertyTransferTaxPercent))
        saleCosts ==
            RMul(RDiv(totalSellCostsPercent, Hundred),
                 safeNumber(inp.currentPropertyValue))
    IN  MathMax(Zero,
                RSub(RSub(RSub(safeNumber(inp.currentPropertyValue),
                               safeNumber(inp.currentMortgageBalance)),
                          initialCapitalGainsTax),
                     saleCosts))

\* Lines 143-144 without the division by the equity share.
NewPropertyValueStart_Unlevered(proceeds, newLoanToValue) ==
    IF RGeq(newLoanToValue, One) THEN Zero ELSE proceeds

\* Lines 143-144: the replacement property bought with the proceeds as equity.
NewPropertyValueStart(proceeds, newLoanToValue) ==
    IF RGeq(newLoanToValue, One) THEN Zero
    ELSE RDiv(proceeds, RSub(One, newLoanToValue))

\* Line 145.
NewMortgageStart(valueStart, newLoanToValue) ==
    MathMax(Zero, RMul(valueStart, newLoanToValue))

\* Lines 113-163: the ages, both amortization traces, the sale proceeds and
\* the size of the replacement property.
DecisionSetup(inp) ==
    LET cAge == MathRound(safeNumber(inp.clientAge))
        pAge == IntMax(cAge, MathRound(safeNumber(inp.planningAge)))
        nYears == Years(cAge, pAge)
        proceeds == NetSaleProceeds(inp)
        newLoanToValue == RDiv(safeNumber(inp.newLoanToValue), Hundred)
        valueStart == NewPropertyValueStart(proceeds, newLoanToValue)
        mortgageStart == NewMortgageStart(valueStart, newLoanToValue)
    IN  [clientAge |-> cAge,
         planningAge |-> pAge,
         years |-> nYears,
         currentBalances |->
             buildMortgageBalances(inp.currentMortgageBalance, inp.loanRate,
                                   inp.loanAmortizationYears, nYears),
         netSaleProceeds |-> proceeds,
         newPropertyValueStart |-> valueStart,
         newMortgageStart |-> mortgageStart,
         newBalances |->
             buildMortgageBalances(mortgageStart, inp.loanRate,
                                   inp.loanAmortizationYears, nYears),
         investmentGrowth |-> InvestmentGrowth(inp)]

\* The series as an array that outlives the call.
SeriesAtEntry_Shared == series

\* Line 154: the series is a new array in every call.
SeriesAtEntry == << >>

Setup ==
    /\ pc = "setup"
    /\ \E s \in { DecisionSetup(input) } :
           /\ clientAge' = s.clientAge
           /\ planningAge' = s.planningAge
           /\ years' = s.years
           /\ currentBalances' = s.currentBalances
           /\ netSaleProceeds' = s.netSaleProceeds
           /\ newPropertyValueStart' = s.newPropertyValueStart
           /\ newMortgageStart' = s.newMortgageStart
           /\ newBalances' = s.newBalances
           /\ investmentGrowth' = s.investmentGrowth
    /\ index' = 0
    /\ currentInvestment' = Zero
    /\ newInvestment' = Zero
    /\ currentSnapshots' = << >>
    /\ newSnapshots' = << >>
    /\ series' = SeriesAtEntry
    /\ pc' = "loop"
    /\ UNCHANGED << input, result >>
    /\ UNCHANGED << callVars, appVars >>

\* balances[index] ?? 0
BalanceAt(built, i) ==
    IF i + 1 \in DOMAIN built.balances THEN built.balances[i + 1] ELSE Zero

\* Lines 166-185 and 198-208: the keep strategy's snapshot of year i, from the
\* investment balance carried over from the year before.
CurrentYear(inp, built, growth, investment, cAge, i) ==
    LET currentValue ==
            GrownValue(safeNumber(inp.currentPropertyValue), inp.currentGrowthRate, i)
        currentMortgage == BalanceAt(built, i)
        currentNetIncome == NetIncome(inp.currentCapRate, currentValue)
        currentInterestExpense == InterestExpense(currentMortgage, inp.loanRate)
        currentTax ==
            TaxPayable(currentNetIncome, currentInterestExpense, inp.marginalTaxRate)
        currentCashFlow ==
            CashFlow(currentNetIncome, currentTax, built.annualDebtService)
        currentInvestmentNext == NextInvestment(investment, growth, currentCashFlow)
        currentCapitalGainsTax ==
            capitalGainsTax(currentValue, inp.currentPropertyAcb,
                            inp.capitalGainsInclusionRate, inp.marginalTaxRate)
    IN  [age |-> cAge + i,
         propertyValue |-> currentValue,
         mortgageBalance |-> currentMortgage,
         netIncome |-> currentNetIncome,
         taxPayable |-> currentTax,
         cashFlow |-> currentCashFlow,
         investmentAccount |-> currentInvestmentNext,
         strategyValue |->
             CurrentStrategyValue(currentValue, currentMortgage,
                                  currentCapitalGainsTax, currentInvestmentNext),
         capitalGainsTax |-> currentCapitalGainsTax]

\* Lines 187-196 and 210-220: the sell strategy's snapshot of year i.
NewYear(inp, built, valueStart, growth, investment, cAge, i) ==
    LET newValue == GrownValue(valueStart, inp.newGrowthRate, i)
        newMortgage == BalanceAt(built, i)
        newNetIncome == NetIncome(inp.newCapRate, newValue)
        newInterestExpense == InterestExpense(newMortgage, inp.loanRate)
        newTax == TaxPayable(newNetIncome, newInterestExpense, inp.marginalTaxRate)
        newCashFlow == CashFlow(newNetIncome, newTax, built.annualDebtService)
        newInvestmentNext == NextInvestment(investment, growth, newCashFlow)
    IN  [age |-> cAge + i,
         propertyValue |-> newValue,
         mortgageBalance |-> newMortgage,
         netIncome |-> newNetIncome,
         taxPayable |-> newTax,
         cashFlow |-> newCashFlow,
         investmentAccount |-> newInvestmentNext,
         strategyValue |-> NewStrategyValue(newValue, newMortgage, newInvestmentNext),
         capitalGainsTax |-> Zero]

\* Lines 222-227: the series entry of a year.
SeriesPoint(current, new) ==
    [age |-> current.age,
     currentValue |-> current.strategyValue,
     newValue |-> new.strategyValue,
     delta |-> RSub(new.strategyValue, current.strategyValue)]

\* Lines 165-228: one iteration of the year loop.
LoopBody ==
    /\ pc = "loop"
    /\ index < years
    /\ \E current \in { CurrentYear(input, currentBalances, investmentGrowth,
                                    currentInvestment, clientAge, index) } :
       \E new \in { NewYear(input, newBalances, newPropertyValueStart,
                            investmentGrowth, newInvestment, clientAge, index) } :
           /\ currentInvestment' = current.investmentAccount
           /\ newInvestment' = new.investmentAccount
           /\ currentSnapshots' = Append(currentSnapshots, current)
           /\ newSnapshots' = Append(newSnapshots, new)
           /\ series' = Append(series, SeriesPoint(current, new))
    /\ index' = index + 1
    /\ UNCHANGED << input, pc, clientAge, planningAge, years, currentBalances,
                    newBalances, netSaleProceeds, newPropertyValueStart,
                    newMortgageStart, investmentGrowth, result >>
    /\ UNCHANGED << callVars, appVars >>

\* Lines 230-279: the decision at the planning age, the scan of the series and
\* the returned record.
DecisionResult(inp, nYears, pAge, currentSeries, newSeries, points) ==
    LET planningIndex == PlanningIndex(nYears)
        currentAtPlanning == currentSeries[planningIndex]
        newAtPlanning == newSeries[planningIndex]
        marginPercent == safeNumber(inp.decisionMarginPercent)
        threshold == Threshold(currentAtPlanning.strategyValue, marginPercent)
        decision == Decision(newAtPlanning.strategyValue, threshold)
        deltaAtPlanning ==
            RSub(newAtPlanning.strategyValue, currentAtPlanning.strategyValue)
        scan == ScanSeries(points, Len(points))
    IN  [decision |-> decision,
         decisionReason |-> DecisionReason(decision, deltaAtPlanning, pAge),
         marginPercent |-> marginPercent,
         planningAge |-> pAge,
         currentAtPlanning |-> currentAtPlanning,
         newAtPlanning |-> newAtPlanning,
         breakEvenAge |-> scan.breakEvenAge,
         peakDeltaAge |-> scan.peakDeltaAge,
         peakDeltaValue |->
             IF IsFinite(scan.peakDeltaValue) THEN scan.peakDeltaValue ELSE Zero,
         currentSeries |-> currentSeries,
         newSeries |-> newSeries,
         series |-> points]

Finish ==
    /\ pc = "loop"
    /\ ~(index < years)
    /\ result' = DecisionResult(input, years, planningAge, currentSnapshots,
                                newSnapshots, series)
    /\ pc' = "done"
    /\ UNCHANGED << input, clientAge, planningAge, years, currentBalances,
                    newBalances, netSaleProceeds, newPropertyValueStart,
                    newMortgageStart, investmentGrowth, index,
                    currentInvestment, newInvestment, currentSnapshots,
                    newSnapshots, series >>
    /\ UNCHANGED << callVars, appVars >>

Next == Setup \/ LoopBody \/ Finish

Spec == Init /\ [][Next]_vars

(***************************************************************************)
(* Calls of calculateDecision one after another.  The locals of a call     *)
(* that has returned are left as they are: the next call may not depend on *)
(* them.                                                                   *)
(***************************************************************************)
RepeatInputs ==
    { inp \in Inputs :
        /\ inp.currentPropertyAcb = Num(40)
        /\ inp.currentMortgageBalance = Num(48)
        /\ inp.currentCapRate = Num(10)
        /\ inp.newGrowthRate = Num(50)
        /\ inp.marginalTaxRate = Num(50)
        /\ inp.loanRate = Zero /\ inp.loanAmortizationYears = Num(2)
        /\ inp.clientAge = Num(70) /\ inp.planningAge \in { Num(69), Num(70 + MaxSpan) }
        /\ inp.newLoanToValue = Num(50)
        /\ inp.decisionMarginPercent = Zero }

\* The caller keeps what the call returned and calls again.
CallAgain ==
    /\ pc = "done"
    /\ earlier' = earlier \cup { [input |-> input, result |-> result] }
    /\ \E inp \in RepeatInputs : input' = inp
    /\ pc' = "setup"
    /\ UNCHANGED << clientAge, planningAge, years, currentBalances,
                    newBalances, netSaleProceeds, newPropertyValueStart,
                    newMortgageStart, investmentGrowth, index,
                    currentInvestment, newInvestment, currentSnapshots,
                    newSnapshots, series, result >>
    /\ UNCHANGED << callVars, storageVars, uiVars >>

InitTwice == (\E inp \in RepeatInputs : Entry(inp)) /\ CallIdle /\ AppIdle

NextTwice ==
    \/ Setup
    \/ LoopBody
    \/ Finish
    \/ CallAgain

SpecTwice == InitTwice /\ [][NextTwice]_vars

(***************************************************************************)
(* rentalVerdict.ts: the mortgage engine.                                  *)
(***************************************************************************)
\* Bound: the longest amortization that is tried, in payment periods.
MaxPeriods == 3

Frequencies ==
    { "monthly", "semi-monthly", "bi-weekly", "weekly",
      "accelerated-bi-weekly", "accelerated-weekly" }

paymentsPerYear(frequency) ==
    CASE frequency \in { "weekly", "accelerated-weekly" } -> 52
      [] frequency \in { "bi-weekly", "accelerated-bi-weekly" } -> 26
      [] frequency = "semi-monthly" -> 24
      [] OTHER -> 12

\* Math.pow(base, 1 / k): the number whose k-th power is base.  Only bases
\* with a root among RootCandidates are representable; the annual rates that
\* are tried are chosen accordingly.
RootCandidates == { Num(2), Rat(3, 2) }
MathRoot(base, k) == CHOOSE x \in RootCandidates : MathPow(x, k) = base

\* Semi-annual compounding: (1 + rate/2)^(2/perYear) - 1.
periodicRate(annualRate, frequency) ==
    LET annual == RDiv(safeNumber(annualRate), Hundred)
        perYear == paymentsPerYear(frequency)
    IN  IF RLeq(annual, Zero) THEN Zero
        ELSE RSub(MathRoot(RAdd(One, RDiv(annual, Num(2))), perYear \div 2), One)

\* Line 70 without the clamp at 0.
Principal_Unclamped(mortgageAmount) == safeNumber(mortgageAmount)

\* Line 70.
Principal(mortgageAmount) == MathMax(Zero, safeNumber(mortgageAmount))

\* Lines 72 and 88 with the count truncated instead of rounded.
PeriodCount_Truncated(nYears, perYear) ==
    LET product == RMul(safeNumber(nYears), Num(perYear))
    IN  IntMax(1, product.n \div product.d)

\* Lines 72 and 88: Math.max(1, Math.round(years * perYear)).
PeriodCount(nYears, perYear) ==
    IntMax(1, MathRound(RMul(safeNumber(nYears), Num(perYear))))

\* Lines 78-81: the annuity payment of the frequency's own period.
BasePayment(principal, rate, periods) ==
    IF rate = Zero THEN RDiv(principal, Num(periods))
    ELSE RDiv(RMul(principal, rate),
              RSub(One, RInv(MathPow(RAdd(One, rate), periods))))

\* Lines 82-87.
Payment(frequency, basePayment) ==
    IF frequency = "accelerated-bi-weekly" THEN RDiv(basePayment, Num(2))
    ELSE IF frequency = "accelerated-weekly" THEN RDiv(basePayment, Num(4))
    ELSE basePayment

\* Line 94 with the whole payment taken as principal.
PrincipalPaid_WholePayment(payment, interest) == MathMax(Zero, payment)

\* Line 94.
PrincipalPaid(payment, interest) == MathMax(Zero, RSub(payment, interest))

\* Lines 70-90: the local variables at the start of the period loop.
MortgageLocals(inp) ==
    LET principal == Principal(inp.mortgageAmount)
        perYear == paymentsPerYear(inp.paymentFrequency)
        periods == PeriodCount(inp.amortizationYears, perYear)
        rate == periodicRate(inp.interestRate, inp.paymentFrequency)
    IN  [principal |-> principal,
         perYear |-> perYear,
         periods |-> periods,
         rate |-> rate,
         payment |->
             IF principal = Zero THEN Zero
             ELSE Payment(inp.paymentFrequency,
                          BasePayment(principal, rate, periods)),
         termPeriods |-> PeriodCount(inp.termYears, perYear),
         balance |-> principal,
         totalInterest |-> Zero,
         period |-> 0]

\* Lines 92-98: one pass of the period loop.
MortgagePeriodStep(l) ==
    LET interest == RMul(l.balance, l.rate)
        principalPaid == PrincipalPaid(l.payment, interest)
    IN  [l EXCEPT !.totalInterest = RAdd(l.totalInterest, interest),
                  !.balance = MathMax(Zero, RSub(l.balance, principalPaid))]

\* The positive annual rates (percent) whose periodic rate is representable:
\* a periodic rate of 100% or, monthly, of 50%.
PositiveRates(frequency) ==
    CASE frequency = "monthly" -> { Num(12600), Rat(16625, 8) }
      [] frequency = "semi-monthly" -> { Num(819000) }
      [] frequency \in { "bi-weekly", "accelerated-bi-weekly" } -> { Num(1638200) }
      [] OTHER -> { }

\* Amortizations and terms are tried in half periods of the frequency, so
\* that Math.round is exercised.
AmortizationHalfPeriods == { 0, 2, 3, 2 * MaxPeriods }
TermHalfPeriods == { 0, 1, 2, 3, 2 * MaxPeriods, 2 * MaxPeriods + 2 }

MortgageCalls ==
    UNION { { [fn |-> "calculateMortgage",
               mortgageAmount |-> amount,
               interestRate |-> annualRate,
               amortizationYears |-> Rat(a, 2 * paymentsPerYear(frequency)),
               paymentFrequency |-> frequency,
               termYears |-> Rat(t, 2 * paymentsPerYear(frequency))] :
                amount \in { Num(90), Zero, Num(-90), NaN },
                annualRate \in { Zero, Num(-5), NaN } \cup PositiveRates(frequency),
                a \in AmortizationHalfPeriods,
                t \in TermHalfPeriods } :
            frequency \in Frequencies }

\* Lines 70-76: a call without principal returns zeros at once.
MortgageNoPrincipal ==
    /\ callPc = "entry"
    /\ call.fn = "calculateMortgage"
    /\ Principal(call.mortgageAmount) = Zero
    /\ locals' = MortgageLocals(call)
    /\ returned' = [payment |-> Zero, totalInterestTerm |-> Zero,
                    balanceAfterTerm |-> Zero]
    /\ callPc' = "returned"
    /\ UNCHANGED << call, decisionVars, appVars >>

\* Lines 70-90: the payment and the start of the amortization trace.
MortgageSetup ==
    /\ callPc = "entry"
    /\ call.fn = "calculateMortgage"
    /\ Principal(call.mortgageAmount) # Zero
    /\ locals' = MortgageLocals(call)
    /\ callPc' = "loop"
    /\ UNCHANGED << call, returned, decisionVars, appVars >>

\* Lines 92-98: a period is paid; the loop is left when the balance is 0.
MortgagePeriod ==
    /\ callPc = "loop"
    /\ locals.period < locals.termPeriods
    /\ \E l \in { MortgagePeriodStep(locals) } :
           IF l.balance = Zero
           THEN locals' = l /\ callPc' = "exit"
           ELSE locals' = [l EXCEPT !.period = l.period + 1] /\ callPc' = "loop"
    /\ UNCHANGED << call, returned, decisionVars, appVars >>

\* Line 100.
MortgageReturn ==
    /\ \/ callPc = "exit"
       \/ callPc = "loop" /\ ~(locals.period < locals.termPeriods)
    /\ returned' = [payment |-> locals.payment,
                    totalInterestTerm |-> locals.totalInterest,
                    balanceAfterTerm |-> locals.balance]
    /\ callPc' = "returned"
    /\ UNCHANGED << call, locals, decisionVars, appVars >>

(***************************************************************************)
(* The debt-service helper and the property metrics of sellDecision.ts,    *)
(* and calculateInvestment of rentalVerdict.ts.                            *)
(***************************************************************************)
POSITIVE_INFINITY == [n |-> 1, d |-> 0]

\* a - b where an operand may be NaN or infinite.
Minus(a, b) ==
    IF IsFinite(a) /\ IsFinite(b) THEN RSub(a, b)
    ELSE IF a = NaN \/ b = NaN THEN NaN
    ELSE IF IsFinite(a) THEN RNeg(b)
    ELSE IF IsFinite(b) THEN a
    ELSE IF a = b THEN NaN
    ELSE a

\* Lines 352-360: the same annuity as calculateMonthlyPayment.
calculateDebtService(loanAmount, annualRate, termYears) ==
    LET principal == safeNumber(loanAmount)
        months == IntMax(1, MathRound(RMul(safeNumber(termYears), Num(12))))
        monthlyRate == RDiv(RDiv(safeNumber(annualRate), Hundred), Num(12))
        factor == MathPow(RAdd(One, monthlyRate), months)
    IN  IF RLeq(principal, Zero) THEN Zero
        ELSE IF RLeq(monthlyRate, Zero) THEN RDiv(principal, Num(months))
        ELSE RDiv(RMul(RMul(principal, monthlyRate), factor), RSub(factor, One))

maintenanceExpense(rent, expenses) ==
    LET percentCost ==
            RMul(RDiv(safeNumber(expenses.maintenancePercent), Hundred), rent)
    IN  RAdd(safeNumber(expenses.maintenanceMonthly), safeNumber(percentCost))

managementExpense(grossIncome, managementPercent) ==
    RMul(RDiv(safeNumber(managementPercent), Hundred), grossIncome)

\* The ratio guarded against a zero denominator only.
Ratio_NonZeroGuard(numerator, value) ==
    IF value = Zero \/ ~IsFinite(value) THEN Zero ELSE RDiv(numerator, value)

\* value > 0 ? numerator / value : 0
Ratio(numerator, value) ==
    IF RGt(value, Zero) THEN RDiv(numerator, value) ELSE Zero

\* The income and operating-expense part shared by both metrics functions
\* (lines 363-381 and 412-430).
OperatingMetrics(inp) ==
    LET rent == safeNumber(inp.rent)
        otherIncome == safeNumber(inp.otherIncome)
        grossIncome == RAdd(rent, otherIncome)
        vacancyLoss ==
            RMul(RDiv(safeNumber(inp.vacancyPercent), Hundred), grossIncome)
        effectiveIncome == RSub(grossIncome, vacancyLoss)
        expenses == inp.expenses
        operatingExpenses ==
            RAdd(RAdd(RAdd(RAdd(RAdd(RAdd(
                safeNumber(expenses.taxes),
                safeNumber(expenses.insurance)),
                maintenanceExpense(rent, expenses)),
                managementExpense(grossIncome, expenses.managementPercent)),
                safeNumber(expenses.utilities)),
                safeNumber(expenses.hoa)),
                safeNumber(expenses.reserves))
        noiMonthly == RSub(effectiveIncome, operatingExpenses)
    IN  [grossIncome |-> grossIncome,
         vacancyLoss |-> vacancyLoss,
         effectiveIncome |-> effectiveIncome,
         operatingExpenses |-> operatingExpenses,
         noiMonthly |-> noiMonthly,
         noiAnnual |-> RMul(noiMonthly, Num(12))]

\* Lines 395-408 and 448-461: the returned PropertyMetrics.
PropertyMetrics(o, debtService, value, cashInvested) ==
    LET cashFlowMonthly == RSub(o.noiMonthly, debtService)
        cashFlowAnnual == RMul(cashFlowMonthly, Num(12))
    IN  [grossMonthlyIncome |-> o.grossIncome,
         vacancyLossMonthly |-> o.vacancyLoss,
         effectiveMonthlyIncome |-> o.effectiveIncome,
         operatingExpensesMonthly |-> o.operatingExpenses,
         noiMonthly |-> o.noiMonthly,
         noiAnnual |-> o.noiAnnual,
         debtServiceMonthly |-> debtService,
         cashFlowMonthly |-> cashFlowMonthly,
         cashFlowAnnual |-> cashFlowAnnual,
         capRate |-> Ratio(o.noiAnnual, value),
         cashInvested |-> cashInvested,
         cashOnCash |-> Ratio(cashFlowAnnual, cashInvested)]

calculateCurrentMetrics(inp) ==
    LET salePrice == safeNumber(inp.salePrice)
        sellingCosts ==
            RMul(RDiv(safeNumber(inp.sellingCostPercent), Hundred), salePrice)
        cashInvested ==
            MathMax(Zero, RSub(RSub(salePrice, sellingCosts),
                               safeNumber(inp.loanBalance)))
    IN  PropertyMetrics(OperatingMetrics(inp), safeNumber(inp.monthlyPayment),
                        salePrice, cashInvested)

calculateNewMetrics(inp) ==
    LET purchasePrice == safeNumber(inp.purchasePrice)
        downPayment ==
            RMul(RDiv(safeNumber(inp.downPaymentPercent), Hundred), purchasePrice)
        loanAmount == MathMax(Zero, RSub(purchasePrice, downPayment))
        debtService ==
            calculateDebtService(loanAmount, inp.interestRate, inp.loanTermYears)
        closingCosts ==
            IF RGt(safeNumber(inp.closingCosts), Zero)
            THEN safeNumber(inp.closingCosts)
            ELSE RMul(RDiv(safeNumber(inp.closingCostsPercent), Hundred),
                      purchasePrice)
        cashInvested ==
            MathMax(Zero, RAdd(RAdd(downPayment, closingCosts),
                               safeNumber(inp.rehab)))
    IN  PropertyMetrics(OperatingMetrics(inp), debtService, purchasePrice,
                        cashInvested)

\* calculateComparison with the sale proceeds taken before the loan is paid off.
calculateComparison_BeforePayoff(currentInput, newInput) ==
    LET sellingCosts ==
            RMul(RDiv(safeNumber(currentInput.sellingCostPercent), Hundred),
                 safeNumber(currentInput.salePrice))
        downPayment ==
            RMul(RDiv(safeNumber(newInput.downPaymentPercent), Hundred),
                 safeNumber(newInput.purchasePrice))
        newLoanAmount ==
            MathMax(Zero, RSub(safeNumber(newInput.purchasePrice), downPayment))
    IN  [current |-> calculateCurrentMetrics(currentInput),
         next |-> calculateNewMetrics(newInput),
         saleNetProceeds |->
             MathMax(Zero, RSub(safeNumber(currentInput.salePrice), sellingCosts)),
         newLoanAmount |-> newLoanAmount,
         newMonthlyPayment |->
             calculateDebtService(newLoanAmount, newInput.interestRate,
                                  newInput.loanTermYears)]

\* sellDecision.ts, lines 464-483.
calculateComparison(currentInput, newInput) ==
    LET current == calculateCurrentMetrics(currentInput)
        next == calculateNewMetrics(newInput)
        sellingCosts ==
            RMul(RDiv(safeNumber(currentInput.sellingCostPercent), Hundred),
                 safeNumber(currentInput.salePrice))
        saleNetProceeds ==
            MathMax(Zero,
                    RSub(RSub(safeNumber(currentInput.salePrice), sellingCosts),
                         safeNumber(currentInput.loanBalance)))
        downPayment ==
            RMul(RDiv(safeNumber(newInput.downPaymentPercent), Hundred),
                 safeNumber(newInput.purchasePrice))
        newLoanAmount ==
            MathMax(Zero, RSub(safeNumber(newInput.purchasePrice), downPayment))
        newMonthlyPayment ==
            calculateDebtService(newLoanAmount, newInput.interestRate,
                                 newInput.loanTermYears)
    IN  [current |-> current,
         next |-> next,
         saleNetProceeds |-> saleNetProceeds,
         newLoanAmount |-> newLoanAmount,
         newMonthlyPayment |-> newMonthlyPayment]

\* The verdict with the thresholds themselves excluded.
Verdict_Above(capRate) ==
    IF RGt(capRate, Rat(9, 200)) THEN "Excellent"
    ELSE IF RGt(capRate, Rat(3, 100)) THEN "Good"
    ELSE "Weak"

\* rentalVerdict.ts, lines 133-134: 0.045 and 0.03 are 9/200 and 3/100.
Verdict(capRate) ==
    IF RGeq(capRate, Rat(9, 200)) THEN "Excellent"
    ELSE IF RGeq(capRate, Rat(3, 100)) THEN "Good"
    ELSE "Weak"

\* rentalVerdict.ts, lines 103-137.  The arguments are price, rentRange,
\* expenses and mortgagePaymentAnnual; price and mortgagePaymentAnnual are
\* used as they come.
calculateInvestment(price, rentRange, expenses, mortgagePaymentAnnual) ==
    LET medianRent == safeNumber(rentRange.median)
        grossAnnual == RMul(medianRent, Num(12))
        vacancyLoss ==
            RMul(grossAnnual, RDiv(safeNumber(expenses.vacancyPercent), Hundred))
        effectiveIncome == RSub(grossAnnual, vacancyLoss)
        management ==
            RMul(effectiveIncome,
                 RDiv(safeNumber(expenses.managementPercent), Hundred))
        maintenance ==
            RMul(effectiveIncome,
                 RDiv(safeNumber(expenses.maintenancePercent), Hundred))
        reserves ==
            RMul(effectiveIncome,
                 RDiv(safeNumber(expenses.reservesPercent), Hundred))
        hoa == RMul(safeNumber(expenses.hoaMonthly), Num(12))
        operatingExpenses ==
            RAdd(RAdd(RAdd(RAdd(RAdd(RAdd(
                management, maintenance), reserves),
                safeNumber(expenses.insuranceAnnual)),
                safeNumber(expenses.utilitiesAnnual)),
                safeNumber(expenses.propertyTaxAnnual)),
                hoa)
        noi == RSub(effectiveIncome, operatingExpenses)
        capRate == Ratio(noi, price)
    IN  [noiAnnual |-> noi,
         capRate |-> capRate,
         cashFlowAnnual |-> Minus(noi, mortgagePaymentAnnual),
         dscr |-> Ratio(noi, mortgagePaymentAnnual),
         verdict |-> Verdict(capRate)]

(***************************************************************************)
(* Calls of the calculators other than calculateDecision.                  *)
(***************************************************************************)
\* Loans of the helpers: a rate above 0 only with the terms that keep the
\* annuity factor (1 + rate/1200)^months small.
HelperLoans ==
    { <<amount, terms[1], terms[2]>> :
        amount \in { Num(8191), Num(48) },
        terms \in { <<Zero, Num(2)>>, <<Zero, Rat(13, 12)>>,
                    <<Num(1200), Rat(1, 12)>>, <<Num(1200), Rat(13, 12)>>,
                    <<Num(-5), Zero>>, <<NaN, NaN>> } }
    \cup
    { <<amount, annualRate, termYears>> :
        amount \in { Zero, Num(-48), NaN, NEGATIVE_INFINITY },
        annualRate \in { Zero, Num(1200), Num(-5), NaN },
        termYears \in { Zero, Rat(1, 12), Rat(13, 12), NaN } }

HelperCalls ==
    { [fn |-> fn, loanAmount |-> loan[1], annualRate |-> loan[2],
       termYears |-> loan[3], years |-> nYears] :
        fn \in { "calculateMonthlyPayment", "calculateDebtService",
                 "buildMortgageBalances" },
        loan \in HelperLoans,
        nYears \in { 1, MaxSpan } }

NoExpenses ==
    [taxes |-> Zero, insurance |-> Zero, maintenanceMonthly |-> Zero,
     maintenancePercent |-> Zero, managementPercent |-> Zero,
     utilities |-> Zero, hoa |-> Zero, reserves |-> Zero]

SomeExpenses ==
    [taxes |-> Num(10), insurance |-> Num(5), maintenanceMonthly |-> Num(5),
     maintenancePercent |-> Num(10), managementPercent |-> Num(10),
     utilities |-> Num(4), hoa |-> Num(3), reserves |-> Num(5)]

BrokenExpenses ==
    [SomeExpenses EXCEPT !.taxes = NaN, !.maintenancePercent = POSITIVE_INFINITY,
                         !.managementPercent = NaN]

CurrentMetricsCalls ==
    { [fn |-> "calculateCurrentMetrics",
       rent |-> rent, otherIncome |-> otherIncome, vacancyPercent |-> vacancy,
       expenses |-> expenses, loanBalance |-> loanBalance,
       interestRate |-> Num(5), monthlyPayment |-> monthlyPayment,
       salePrice |-> salePrice, sellingCostPercent |-> Num(5)] :
        rent \in { Zero, Hundred, NaN },
        otherIncome \in { Zero, Num(20) },
        vacancy \in { Zero, Num(5) },
        expenses \in { NoExpenses, SomeExpenses, BrokenExpenses },
        loanBalance \in { Zero, Num(500), Num(2000) },
        monthlyPayment \in { Zero, Num(30), NaN },
        salePrice \in { Zero, Num(1000), Num(-1000), NaN } }

NewMetricsCalls ==
    { [fn |-> "calculateNewMetrics",
       purchasePrice |-> purchasePrice, closingCosts |-> closingCosts,
       closingCostsPercent |-> Num(2), rehab |-> rehab,
       downPaymentPercent |-> downPayment, interestRate |-> loan[1],
       loanTermYears |-> loan[2], rent |-> rent, otherIncome |-> Zero,
       vacancyPercent |-> Num(5), expenses |-> expenses] :
        purchasePrice \in { Zero, Num(1200), Num(-1200), NaN },
        closingCosts \in { Zero, Num(30) },
        rehab \in { Zero, Num(-2000) },
        downPayment \in { Zero, Num(20), Hundred, Num(150), NaN },
        loan \in { <<Zero, Num(2)>>, <<Num(1200), Rat(1, 12)>>, <<NaN, NaN>> },
        rent \in { Zero, Hundred },
        expenses \in { NoExpenses, SomeExpenses, BrokenExpenses } }

NoInvestmentExpenses ==
    [vacancyPercent |-> Zero, maintenancePercent |-> Zero,
     managementPercent |-> Zero, reservesPercent |-> Zero,
     insuranceAnnual |-> Zero, utilitiesAnnual |-> Zero, hoaMonthly |-> Zero,
     propertyTaxAnnual |-> Zero]

SomeInvestmentExpenses ==
    [vacancyPercent |-> Num(5), maintenancePercent |-> Num(10),
     managementPercent |-> Num(10), reservesPercent |-> Num(5),
     insuranceAnnual |-> Num(12), utilitiesAnnual |-> Zero,
     hoaMonthly |-> Num(1), propertyTaxAnnual |-> Num(24)]

BrokenInvestmentExpenses ==
    [SomeInvestmentExpenses EXCEPT !.vacancyPercent = NaN,
                                   !.insuranceAnnual = NEGATIVE_INFINITY]

InvestmentCalls ==
    { [fn |-> "calculateInvestment",
       price |-> price,
       rentRange |-> [low |-> Zero, median |-> median, high |-> Zero],
       expenses |-> expenses,
       mortgagePaymentAnnual |-> mortgagePaymentAnnual] :
        price \in { Zero, Num(1000), Num(2000), Num(4000), Num(20000),
                    Num(-1000), NaN, POSITIVE_INFINITY },
        median \in { Zero, Num(10), Num(15), NaN },
        expenses \in { NoInvestmentExpenses, SomeInvestmentExpenses,
                       BrokenInvestmentExpenses },
        mortgagePaymentAnnual \in { Zero, Num(60), Num(-60), NaN,
                                    POSITIVE_INFINITY, NEGATIVE_INFINITY } }

\* Pairs of inputs of calculateComparison: the current property against the
\* replacement property.
ComparisonCalls ==
    { [fn |-> "calculateComparison", currentInput |-> currentInput,
       newInput |-> newInput] :
        currentInput \in
            { c \in CurrentMetricsCalls :
                /\ c.rent = Hundred /\ c.otherIncome = Zero
                /\ c.vacancyPercent = Num(5) /\ c.expenses = SomeExpenses
                /\ c.monthlyPayment = Num(30) },
        newInput \in
            { c \in NewMetricsCalls :
                /\ c.rent = Hundred /\ c.expenses = SomeExpenses
                /\ c.closingCosts = Zero /\ c.rehab = Zero } }

(***************************************************************************)
(* The listing-extract handler (app/api/listing-extract/route.ts).         *)
(* A string is a sequence of one-character strings.  A JSON value is a     *)
(* tagged record: [str |-> chars], [num |-> number] or Absent (undefined   *)
(* or null).  The html text is a sequence of tokens: white space, the      *)
(* script elements and the data-cy elements the handler searches for, and  *)
(* other text.                                                             *)
(***************************************************************************)
Str(chars) == [str |-> chars]
JsonNum(x) == [num |-> x]
IsStr(v) == DOMAIN v = { "str" }
IsNum(v) == DOMAIN v = { "num" }

\* What a callee threw instead of returning.
TypeError == [threw |-> "TypeError"]
SyntaxError == [threw |-> "SyntaxError"]
Threw(v) == DOMAIN v = { "threw" }

DigitChars == << "0", "1", "2", "3", "4", "5", "6", "7", "8", "9" >>
IsDigit(ch) == \E i \in 1..10 : DigitChars[i] = ch
DigitValue(ch) == (CHOOSE i \in 1..10 : DigitChars[i] = ch) - 1

\* The longest prefix of digits of s.
RECURSIVE DigitPrefix(_)
DigitPrefix(s) ==
    IF s # << >> /\ IsDigit(Head(s))
    THEN << Head(s) >> \o DigitPrefix(Tail(s))
    ELSE << >>

\* The value of a sequence of digits.
RECURSIVE DigitsValue(_)
DigitsValue(s) ==
    IF s = << >> THEN 0
    ELSE 10 * DigitsValue(SubSeq(s, 1, Len(s) - 1)) + DigitValue(s[Len(s)])

RECURSIVE PowerOfTen(_)
PowerOfTen(k) == IF k = 0 THEN 1 ELSE 10 * PowerOfTen(k - 1)

\* Number.parseFloat of a text of digits and dots: the longest prefix that
\* is a decimal number, NaN when there is none.
parseFloat(s) ==
    LET whole == DigitPrefix(s)
        rest == SubSeq(s, Len(whole) + 1, Len(s))
        fraction ==
            IF rest # << >> /\ Head(rest) = "." THEN DigitPrefix(Tail(rest))
            ELSE << >>
    IN  IF whole = << >> /\ fraction = << >> THEN NaN
        ELSE RAdd(Num(DigitsValue(whole)),
                  Rat(DigitsValue(fraction), PowerOfTen(Len(fraction))))

\* String(value) of a string or of a non-negative whole number.
RECURSIVE DecimalDigits(_)
DecimalDigits(k) ==
    IF k < 10 THEN << DigitChars[k + 1] >>
    ELSE DecimalDigits(k \div 10) \o << DigitChars[(k % 10) + 1] >>

String(v) ==
    IF IsStr(v) THEN v.str
    ELSE IF IsNum(v) THEN DecimalDigits(v.num.n)
    ELSE << >>

\* value ?? other
Coalesce(v, other) == IF v = Absent THEN other ELSE v

\* JavaScript's truthiness of a JSON value.
Truthy(v) ==
    IF IsStr(v) THEN v.str # << >>
    ELSE IF IsNum(v) THEN v.num # Zero /\ v.num # NaN
    ELSE FALSE

\* a || b
Or(a, b) == IF Truthy(a) THEN a ELSE b

\* Lines 3-8.  A number that is not 0 has no replace method: TypeError.
parseNumber(value) ==
    IF ~Truthy(value) THEN Zero
    ELSE IF ~IsStr(value) THEN TypeError
    ELSE LET normalized == SelectSeq(value.str, LAMBDA ch : IsDigit(ch) \/ ch = ".")
             parsed == parseFloat(normalized)
         IN  IF IsFinite(parsed) THEN parsed ELSE Zero

\* The tokens of an html text.
Space == [ws |-> TRUE]
Script(id, body) == [script |-> id, body |-> body]
Cy(name, text) == [cy |-> name, text |-> text]
TaxLine(text) == [tax |-> text]
Other(text) == [other |-> text]
IsSpace(token) == DOMAIN token = { "ws" }

\* The text of a script element: not JSON, or the text of a JSON value.
Unparsable == [unparsable |-> TRUE]
Json(value) == [json |-> value]

\* String.prototype.trim for a sequence whose white space blank(_) tells.
Trim(s, blank(_)) ==
    LET solid == { i \in 1..Len(s) : ~blank(s[i]) }
    IN  IF solid = { } THEN << >>
        ELSE SubSeq(s, CHOOSE i \in solid : \A j \in solid : i <= j,
                       CHOOSE i \in solid : \A j \in solid : j <= i)

IsBlankChar(ch) == ch = " "

\* The first token of html that test(_) accepts, or Absent.
FirstToken(html, test(_)) ==
    LET found == { i \in 1..Len(html) : test(html[i]) }
    IN  IF found = { } THEN Absent
        ELSE html[CHOOSE i \in found : \A j \in found : i <= j]

\* Lines 10-13 and 15-20: the text of the first script element of the kind.
extractJsonScript(html, id) ==
    LET match ==
            FirstToken(html, LAMBDA t : "script" \in DOMAIN t /\ t.script = id)
    IN  IF match = Absent THEN Absent ELSE match.body

extractLdJson(html) == extractJsonScript(html, "application/ld+json")

\* The longest prefix of digits and commas.
RECURSIVE AmountPrefix(_)
AmountPrefix(s) ==
    IF s # << >> /\ (IsDigit(Head(s)) \/ Head(s) = ",")
    THEN << Head(s) >> \o AmountPrefix(Tail(s))
    ELSE << >>

RECURSIVE SkipBlanks(_)
SkipBlanks(s) ==
    IF s # << >> /\ IsBlankChar(Head(s)) THEN SkipBlanks(Tail(s)) ELSE s

\* ([0-9,]+) after the element's tag and white space; the price may have a $.
Amount(text, dollar) ==
    LET start == SkipBlanks(text)
        digits ==
            IF dollar /\ start # << >> /\ Head(start) = "$" THEN Tail(start)
            ELSE start
    IN  AmountPrefix(digits)

\* html.match(/data-cy="name"...([0-9,]+)/): the capture of the first element
\* of that name with an amount, or Absent.
CyMatch(html, name, dollar) ==
    LET match ==
            FirstToken(html, LAMBDA t : /\ "cy" \in DOMAIN t
                                        /\ t.cy = name
                                        /\ Amount(t.text, dollar) # << >>)
    IN  IF match = Absent THEN Absent ELSE Str(Amount(match.text, dollar))

\* Line 76: the amount after "Property Tax ... $".
TaxMatch(html) ==
    LET match ==
            FirstToken(html, LAMBDA t : /\ "tax" \in DOMAIN t
                                        /\ t.tax # << >>
                                        /\ Head(t.tax) = "$"
                                        /\ AmountPrefix(Tail(t.tax)) # << >>)
    IN  IF match = Absent THEN Absent
        ELSE Str(AmountPrefix(Tail(match.tax)))

\* Line 75: ([^<]+) of the first address element with a text.
AddressMatch(html) ==
    LET match ==
            FirstToken(html, LAMBDA t : /\ "cy" \in DOMAIN t
                                        /\ t.cy = "property-address"
                                        /\ SkipBlanks(t.text) # << >>)
    IN  IF match = Absent THEN Absent ELSE Str(SkipBlanks(match.text))

\* Line 79: address.match(/,\s*([^,]+),\s*BC/i), the leftmost match.
CityMatch(address) ==
    LET IsBC(k) ==
            /\ k + 1 <= Len(address)
            /\ address[k] \in { "B", "b" }
            /\ address[k + 1] \in { "C", "c" }
        matches ==
            { p \in (1..Len(address)) \X (1..Len(address)) :
                /\ p[1] + 1 < p[2]
                /\ address[p[1]] = ","
                /\ address[p[2]] = ","
                /\ \A k \in (p[1] + 1)..(p[2] - 1) : address[k] # ","
                /\ \E k \in (p[2] + 1)..Len(address) :
                       /\ IsBC(k)
                       /\ \A b \in (p[2] + 1)..(k - 1) : address[b] = " " }
    IN  IF matches = { } THEN Absent
        ELSE LET first == CHOOSE p \in matches : \A q \in matches : p[1] <= q[1]
             IN  Str(SubSeq(address, first[1] + 1, first[2] - 1))

NoText == Str(<< >>)

\* Lines 23-44: the listing of the __NEXT_DATA__ script.  Absent when there
\* is no script or no listing in it, a thrown error when JSON.parse or
\* parseNumber throws.
ParseNextData(html) ==
    LET nextDataRaw == extractJsonScript(html, "__NEXT_DATA__")
    IN  IF nextDataRaw = Absent THEN Absent
        ELSE IF nextDataRaw = Unparsable THEN SyntaxError
        ELSE LET listing == nextDataRaw.json.listing
             IN  IF listing = Absent THEN Absent
                 ELSE [address |-> Or(Or(listing.address, listing.mlsAddress), NoText),
                       city |-> Or(Or(listing.city, listing.mlsCity), NoText),
                       bedrooms |-> parseNumber(listing.beds),
                       bathrooms |-> parseNumber(listing.baths),
                       sqft |-> parseNumber(Coalesce(listing.sqFtRaw,
                                                     listing.sqFtSearch)),
                       price |-> parseNumber(Str(String(
                                     Coalesce(listing.listPrice,
                                         Coalesce(listing.marketPrice, NoText))))),
                       hoa |-> Zero,
                       propertyTaxAnnual |->
                           parseNumber(Str(String(
                               Coalesce(listing.taxAmount, NoText))))]

\* node?.name
Member(node, name) == IF node = Absent THEN Absent ELSE node[name]

\* Lines 46-69: the Product and the residence of the ld+json script.
ParseLdJson(html) ==
    LET ldRaw == extractLdJson(html)
    IN  IF ldRaw = Absent THEN Absent
        ELSE IF ldRaw = Unparsable THEN SyntaxError
        ELSE LET product == ldRaw.json.product
                 residence == ldRaw.json.residence
             IN  [address |-> Or(Or(Member(residence, "streetAddress"),
                                    Member(product, "name")), NoText),
                  city |-> Or(Member(residence, "addressLocality"), NoText),
                  bedrooms |-> parseNumber(Member(residence, "numberOfBedrooms")),
                  bathrooms |->
                      parseNumber(Member(residence, "numberOfBathroomsTotal")),
                  sqft |-> parseNumber(Member(residence, "floorSize")),
                  price |-> parseNumber(Str(String(
                                Coalesce(Member(product, "price"), NoText)))),
                  hoa |-> Zero,
                  propertyTaxAnnual |-> Zero]

\* Lines 71-91: the data-cy elements of the page.
ParseElements(html) ==
    LET addressMatch == AddressMatch(html)
        address ==
            IF addressMatch = Absent THEN << >>
            ELSE Trim(addressMatch.str, IsBlankChar)
        cityMatch == CityMatch(address)
        city ==
            IF cityMatch = Absent THEN << >> ELSE Trim(cityMatch.str, IsBlankChar)
    IN  [address |-> Str(address),
         city |-> Str(city),
         bedrooms |-> parseNumber(CyMatch(html, "property-beds", FALSE)),
         bathrooms |-> parseNumber(CyMatch(html, "property-baths", FALSE)),
         sqft |-> parseNumber(CyMatch(html, "property-sqft", FALSE)),
         price |-> parseNumber(CyMatch(html, "property-price", TRUE)),
         hoa |-> Zero,
         propertyTaxAnnual |-> parseNumber(TaxMatch(html))]

\* A try block completed: none of the parsed fields is a thrown error.
Completed(parsed) ==
    /\ parsed # Absent
    /\ ~Threw(parsed)
    /\ \A name \in DOMAIN parsed : ~Threw(parsed[name])

\* Lines 22-92.
parseRemaxHtml(html) ==
    IF Completed(ParseNextData(html)) THEN ParseNextData(html)
    ELSE IF Completed(ParseLdJson(html)) THEN ParseLdJson(html)
    ELSE ParseElements(html)

\* value || 0 of a number
NumberOrZero(x) == IF x = Zero \/ x = NaN THEN Zero ELSE x

Vancouver == Str(<< "V", "a", "n", "c", "o", "u", "v", "e", "r" >>)

\* Lines 105-131: the payload built from the parsed listing.
ExtractPayload(parsed) ==
    [address |-> parsed.address,
     city |-> Or(parsed.city, Vancouver),
     bedrooms |-> NumberOrZero(parsed.bedrooms),
     bathrooms |-> NumberOrZero(parsed.bathrooms),
     sqft |-> NumberOrZero(parsed.sqft),
     price |-> NumberOrZero(parsed.price),
     hoa |-> NumberOrZero(parsed.hoa),
     rentRange |-> [low |-> Zero, median |-> Zero, high |-> Zero,
                    source |-> "provider-estimate"],
     confidence |->
         [address |-> IF Truthy(parsed.address) THEN "medium" ELSE "low",
          bedrooms |-> IF NumberOrZero(parsed.bedrooms) # Zero
                       THEN "medium" ELSE "low",
          bathrooms |-> IF NumberOrZero(parsed.bathrooms) # Zero
                        THEN "medium" ELSE "low",
          sqft |-> IF NumberOrZero(parsed.sqft) # Zero THEN "medium" ELSE "low",
          price |-> IF NumberOrZero(parsed.price) # Zero THEN "high" ELSE "low",
          hoa |-> "low",
          rentRange |-> "low"],
     propertyTaxAnnual |-> NumberOrZero(parsed.propertyTaxAnnual)]

\* The body of a request: a text that is not JSON, the JSON null, or an
\* object with url and html.
NotJson == [notJson |-> TRUE]
JsonObject(url, html) == [url |-> url, html |-> html]

\* body.url?.trim(): undefined for an absent member, a TypeError for a
\* member that is not a string.
TrimMember(member, blank(_)) ==
    IF member = Absent THEN Absent
    ELSE IF ~IsStr(member) THEN TypeError
    ELSE Str(Trim(member.str, blank))

\* Lines 94-142.  The value is the response, or what the handler threw.
POST(body) ==
    IF body = NotJson THEN SyntaxError
    ELSE IF body = Absent THEN TypeError
    ELSE LET url == TrimMember(body.url, IsBlankChar)
             html == TrimMember(body.html, IsSpace)
         IN  IF Threw(url) THEN url
             ELSE IF Threw(html) THEN html
             ELSE IF ~Truthy(url) /\ ~Truthy(html)
                  THEN [status |-> 400, error |-> "Missing url or html"]
             ELSE IF Truthy(html)
                  THEN [status |-> 200,
                        data |-> ExtractPayload(parseRemaxHtml(html.str))]
             ELSE IF Truthy(url)
                  THEN [status |-> 400,
                        error |->
                            "Provider connection not configured for URL fetch."]
             ELSE [status |-> 400, error |-> "Unsupported request."]

\* Listings of the __NEXT_DATA__ script.
Listings ==
    { [address |-> Str(<< "1", " ", "A" >>), mlsAddress |-> Absent,
       city |-> Absent, mlsCity |-> Str(<< "V" >>),
       beds |-> beds, baths |-> Str(<< "2" >>),
       sqFtRaw |-> Absent, sqFtSearch |-> Str(<< "9", "5", "0" >>),
       listPrice |-> listPrice, marketPrice |-> marketPrice,
       taxAmount |-> JsonNum(Num(30))] :
        beds \in { Str(<< "3" >>), JsonNum(Num(3)), Absent },
        listPrice \in { Str(<< "1", ",", "1", "0", "0" >>), JsonNum(Num(1100)),
                        JsonNum(Zero), Str(<< "." >>), Str(<< "-", "5" >>),
                        Absent },
        marketPrice \in { Absent, Str(<< "9", "0", "0" >>) } }

\* The ld+json scripts: the Product's price and the residence's bedrooms.
LdJsons ==
    { [product |-> product, residence |-> residence] :
        product \in { Absent,
                      [name |-> Str(<< "A" >>), price |-> Str(<< "9", "5", "0" >>)],
                      [name |-> Str(<< "A" >>), price |-> JsonNum(Zero)] },
        residence \in
            { Absent,
              [streetAddress |-> Absent, addressLocality |-> Str(<< "V" >>),
               numberOfBedrooms |-> Str(<< "2" >>),
               numberOfBathroomsTotal |-> Absent, floorSize |-> Absent],
              [streetAddress |-> Str(<< "1", " ", "A" >>),
               addressLocality |-> Absent,
               numberOfBedrooms |-> JsonNum(Num(2)),
               numberOfBathroomsTotal |-> Absent, floorSize |-> Absent] } }

\* The data-cy elements of a page.
PageElements ==
    { << Cy("property-price", price), Cy("property-beds", << "2" >>),
         Cy("property-address", address), TaxLine(tax) >> :
        price \in { << "$", "1", ",", "1", "0", "0" >>, << " ", "0" >>,
                    << "a" >>, << ",", "," >> },
        address \in { << " ", "1", " ", "A", ",", " ", "V", ",", " ", "B", "C" >>,
                      << "1", " ", "A" >> },
        tax \in { << "$", "3", "0" >>, << "3", "0" >> } }

\* The html texts of a request.
Pages ==
    { << >>, << Space >>, << Other(<< "h", "i" >>) >> }
    \cup { << Space, Script("__NEXT_DATA__", Json([listing |-> listing])), Space >> :
            listing \in Listings }
    \cup { << Script("__NEXT_DATA__", Unparsable),
              Script("application/ld+json", Json(ld)) >> \o elements :
            ld \in LdJsons, elements \in PageElements }
    \cup { << Script("__NEXT_DATA__", Json([listing |-> Absent])),
              Script("application/ld+json", Unparsable) >> \o elements :
            elements \in PageElements }

PostBodies ==
    { NotJson, Absent }
    \cup { JsonObject(url, html) :
            url \in { Absent, Str(<< >>), Str(<< " " >>),
                      Str(<< " ", "u", " " >>), JsonNum(Num(5)) },
            html \in { Absent, JsonNum(Num(5)) } \cup { Str(page) : page \in Pages } }

PostCalls == { [fn |-> "POST", body |-> body] : body \in PostBodies }

Calls ==
    MortgageCalls \cup HelperCalls \cup CurrentMetricsCalls
        \cup NewMetricsCalls \cup InvestmentCalls \cup ComparisonCalls
        \cup PostCalls

\* The value a single-step calculator returns for the call c.
Apply(c) ==
    CASE c.fn = "calculateMonthlyPayment" ->
             calculateMonthlyPayment(c.loanAmount, c.annualRate, c.termYears)
      [] c.fn = "calculateDebtService" ->
             calculateDebtService(c.loanAmount, c.annualRate, c.termYears)
      [] c.fn = "buildMortgageBalances" ->
             buildMortgageBalances(c.loanAmount, c.annualRate, c.termYears,
                                   c.years)
      [] c.fn = "calculateCurrentMetrics" -> calculateCurrentMetrics(c)
      [] c.fn = "calculateNewMetrics" -> calculateNewMetrics(c)
      [] c.fn = "calculateInvestment" ->
             calculateInvestment(c.price, c.rentRange, c.expenses,
                                 c.mortgagePaymentAnnual)
      [] c.fn = "calculateComparison" ->
             calculateComparison(c.currentInput, c.newInput)
      [] c.fn = "POST" -> POST(c.body)

\* A call of calculateMonthlyPayment (sellDecision.ts, line 56).
MonthlyPaymentCall ==
    /\ callPc = "entry"
    /\ call.fn = "calculateMonthlyPayment"
    /\ returned' =
           calculateMonthlyPayment(call.loanAmount, call.annualRate,
                                   call.termYears)
    /\ callPc' = "returned"
    /\ UNCHANGED << call, locals, decisionVars, appVars >>

\* A call of calculateDebtService (line 352).
DebtServiceCall ==
    /\ callPc = "entry"
    /\ call.fn = "calculateDebtService"
    /\ returned' =
           calculateDebtService(call.loanAmount, call.annualRate,
                                call.termYears)
    /\ callPc' = "returned"
    /\ UNCHANGED << call, locals, decisionVars, appVars >>

\* A call of buildMortgageBalances (line 83).
MortgageBalancesCall ==
    /\ callPc = "entry"
    /\ call.fn = "buildMortgageBalances"
    /\ returned' =
           buildMortgageBalances(call.loanAmount, call.annualRate,
                                 call.termYears, call.years)
    /\ callPc' = "returned"
    /\ UNCHANGED << call, locals, decisionVars, appVars >>

\* A call of calculateCurrentMetrics (line 362).
CurrentMetricsCall ==
    /\ callPc = "entry"
    /\ call.fn = "calculateCurrentMetrics"
    /\ returned' =
           calculateCurrentMetrics(call)
    /\ callPc' = "returned"
    /\ UNCHANGED << call, locals, decisionVars, appVars >>

\* A call of calculateNewMetrics (line 411).
NewMetricsCall ==
    /\ callPc = "entry"
    /\ call.fn = "calculateNewMetrics"
    /\ returned' =
           calculateNewMetrics(call)
    /\ callPc' = "returned"
    /\ UNCHANGED << call, locals, decisionVars, appVars >>

\* A call of calculateInvestment (rentalVerdict.ts, line 103).
InvestmentCall ==
    /\ callPc = "entry"
    /\ call.fn = "calculateInvestment"
    /\ returned' =
           calculateInvestment(call.price, call.rentRange, call.expenses,
                               call.mortgagePaymentAnnual)
    /\ callPc' = "returned"
    /\ UNCHANGED << call, locals, decisionVars, appVars >>

\* A call of calculateComparison (sellDecision.ts, line 464).
ComparisonCall ==
    /\ callPc = "entry"
    /\ call.fn = "calculateComparison"
    /\ returned' = calculateComparison(call.currentInput, call.newInput)
    /\ callPc' = "returned"
    /\ UNCHANGED << call, locals, decisionVars, appVars >>

\* A request to the listing-extract handler (route.ts, line 94): it is
\* answered, or the handler throws.
PostCall ==
    /\ callPc = "entry"
    /\ call.fn = "POST"
    /\ returned' = POST(call.body)
    /\ callPc' = IF Threw(POST(call.body)) THEN "threw" ELSE "returned"
    /\ UNCHANGED << call, locals, decisionVars, appVars >>

\* No calculateDecision is running.
DecisionIdle ==
    /\ input = [none |-> TRUE]
    /\ pc = "idle"
    /\ clientAge = 0
    /\ planningAge = 0
    /\ years = 0
    /\ currentBalances = NoBalances
    /\ newBalances = NoBalances
    /\ netSaleProceeds = Zero
    /\ newPropertyValueStart = Zero
    /\ newMortgageStart = Zero
    /\ investmentGrowth = One
    /\ index = 0
    /\ currentInvestment = Zero
    /\ newInvestment = Zero
    /\ currentSnapshots = << >>
    /\ newSnapshots = << >>
    /\ series = << >>
    /\ result = NoResult

InitCalls ==
    /\ DecisionIdle
    /\ call \in Calls
    /\ callPc = "entry"
    /\ locals = NoLocals
    /\ returned = << >>
    /\ AppIdle

NextCalls ==
    \/ MortgageNoPrincipal
    \/ MortgageSetup
    \/ MortgagePeriod
    \/ MortgageReturn
    \/ MonthlyPaymentCall
    \/ DebtServiceCall
    \/ MortgageBalancesCall
    \/ CurrentMetricsCall
    \/ NewMetricsCall
    \/ InvestmentCall
    \/ ComparisonCall
    \/ PostCall

SpecCalls == InitCalls /\ [][NextCalls]_vars

(***************************************************************************)
(* The persistence adapters of storage.ts.  A JSON text is the tree of its *)
(* values; a number is written as its digits, and NaN and the infinities   *)
(* as null.                                                                *)
(***************************************************************************)
JsonNull == [null |-> TRUE]
IsNumber(v) == DOMAIN v = { "n", "d" }

\* JSON.stringify of a number, of null and of an object.
RECURSIVE JSON_stringify(_)
JSON_stringify(value) ==
    IF IsNumber(value)
    THEN IF IsFinite(value) THEN [number |-> value] ELSE [literal |-> "null"]
    ELSE IF value = JsonNull THEN [literal |-> "null"]
    ELSE [members |-> [k \in DOMAIN value |-> JSON_stringify(value[k])]]

EmptyText == [empty |-> TRUE]
CorruptText == [corrupt |-> TRUE]

\* JSON.parse: a SyntaxError for a text that is not JSON.
RECURSIVE JSON_parse(_)
JSON_parse(text) ==
    IF text = EmptyText \/ text = CorruptText THEN SyntaxError
    ELSE IF "number" \in DOMAIN text THEN text.number
    ELSE IF "literal" \in DOMAIN text THEN JsonNull
    ELSE [k \in DOMAIN text.members |-> JSON_parse(text.members[k])]

\* storage.ts, lines 14-16.
NoopStorage_load == JsonNull

\* Lines 26-35: raw is the item under the key, Absent when there is none.
LocalStorageStub_load(window, raw) ==
    IF ~window THEN JsonNull
    ELSE IF raw = Absent \/ raw = EmptyText THEN JsonNull
    ELSE IF Threw(JSON_parse(raw)) THEN JsonNull
    ELSE JSON_parse(raw)

\* Lines 37-40: the item under the key after save(state).
LocalStorageStub_save(window, raw, state) ==
    IF ~window THEN raw ELSE JSON_stringify(state)

\* The states that are saved: finite numbers, NaN and Infinity.
AppStates ==
    { [current |-> [salePrice |-> salePrice, rent |-> rent],
       next |-> [purchasePrice |-> purchasePrice]] :
        salePrice \in { Num(1000), NaN },
        rent \in { Hundred, Num(200) },
        purchasePrice \in { Num(1200), POSITIVE_INFINITY } }

\* What the key holds before the first save: nothing, an empty text, a text
\* that is not JSON, or the text of a state of an earlier visit.
StoredTexts ==
    { Absent, EmptyText, CorruptText }
    \cup { JSON_stringify(state) :
            state \in { a \in AppStates : a.current.rent = Hundred } }

NoopLoad ==
    /\ loaded' = [adapter |-> "NoopStorage", value |-> NoopStorage_load]
    /\ UNCHANGED << hasWindow, localStorage, saved, earlier, decisionVars,
                    callVars, uiVars >>

\* Lines 18-20: the state is dropped.
NoopSave ==
    /\ \E state \in AppStates : saved' = [saved EXCEPT !.NoopStorage = state]
    /\ UNCHANGED << hasWindow, localStorage, loaded, earlier, decisionVars,
                    callVars, uiVars >>

LocalLoad ==
    /\ loaded' = [adapter |-> "LocalStorageStub",
                  value |-> LocalStorageStub_load(hasWindow, localStorage)]
    /\ UNCHANGED << hasWindow, localStorage, saved, earlier, decisionVars,
                    callVars, uiVars >>

LocalSave ==
    /\ \E state \in AppStates :
           /\ localStorage' = LocalStorageStub_save(hasWindow, localStorage, state)
           /\ saved' = [saved EXCEPT !.LocalStorageStub = state]
    /\ UNCHANGED << hasWindow, loaded, earlier, decisionVars, callVars,
                    uiVars >>

InitStorage ==
    /\ DecisionIdle
    /\ CallIdle
    /\ earlier = { }
    /\ hasWindow \in BOOLEAN
    /\ localStorage \in StoredTexts
    /\ loaded = NotLoaded
    /\ saved = NothingSaved
    /\ UiIdle

NextStorage ==
    \/ NoopLoad
    \/ NoopSave
    \/ LocalLoad
    \/ LocalSave

SpecStorage == InitStorage /\ [][NextStorage]_vars

(***************************************************************************)
(* The keep-vs-sell Wizard: part_002, lines 162-560.                       *)
(***************************************************************************)
\* Lines 6-25: the inputs the wizard starts with.
defaultInputs ==
    [currentPropertyValue |-> Num(10000000),
     currentPropertyAcb |-> Num(2000000),
     currentMortgageBalance |-> Num(1000000),
     currentCapRate |-> Num(2),
     currentGrowthRate |-> Num(4),
     newCapRate |-> Num(2),
     newGrowthRate |-> Num(4),
     marginalTaxRate |-> Num(50),
     capitalGainsInclusionRate |-> Rat(666667, 10000),
     realtorFeesPercent |-> Num(2),
     propertyTransferTaxPercent |-> Rat(28, 10),
     investmentAccountRoi |-> Num(5),
     loanRate |-> Num(5),
     loanAmortizationYears |-> Num(25),
     clientAge |-> Num(70),
     planningAge |-> Num(90),
     newLoanToValue |-> Num(10),
     decisionMarginPercent |-> Num(2)]

\* Line 183: const steps = ["Current", "Assumptions", "New", "Results"].
Wizard_steps == << "Current", "Assumptions", "New", "Results" >>

\* Lines 162-165 and 184: the state of a Wizard that has just mounted.  The
\* NoopStorage it loads from resolves with null, so the inputs stay.
WizardMounted ==
    [mounted |-> TRUE,
     step |-> 0,
     inputs |-> defaultInputs,
     showAdvanced |-> FALSE,
     showErrors |-> FALSE]

\* Lines 186-201: requiredMap, by step (0-based as in the source).
requiredMap(inputs) ==
    [s \in 0 .. 3 |->
        CASE s = 0 ->
                [currentValue |-> RGt(inputs.currentPropertyValue, Zero),
                 currentAcb |-> RGt(inputs.currentPropertyAcb, Zero),
                 clientAge |-> RGt(inputs.clientAge, Zero)]
          [] s = 1 ->
                [growthRate |-> RGt(inputs.currentGrowthRate, Zero),
                 taxRate |-> RGt(inputs.marginalTaxRate, Zero)]
          [] s = 2 ->
                [ltv |-> RLeq(Zero, inputs.newLoanToValue)]
          [] OTHER -> << >>]

\* Lines 211-214: every value of the map of the step is true.
isStepValid(w) ==
    LET map == requiredMap(w.inputs)[w.step]
    IN  \A key \in DOMAIN map : map[key]

\* Lines 262-420: the fields each step renders: the input a field edits and,
\* for a field with an invalid property, the entry of requiredMap it reads.
WizardFields ==
    [s \in 0 .. 3 |->
        CASE s = 0 ->
                { [input |-> "currentPropertyValue", map |-> 0, key |-> "currentValue"],
                  [input |-> "currentPropertyAcb", map |-> 0, key |-> "currentAcb"],
                  [input |-> "currentMortgageBalance"],
                  [input |-> "currentCapRate"],
                  [input |-> "currentGrowthRate", map |-> 1, key |-> "growthRate"],
                  [input |-> "clientAge", map |-> 0, key |-> "clientAge"] }
          [] s = 1 ->
                { [input |-> "marginalTaxRate", map |-> 1, key |-> "taxRate"],
                  [input |-> "capitalGainsInclusionRate"],
                  [input |-> "realtorFeesPercent"],
                  [input |-> "propertyTransferTaxPercent"],
                  [input |-> "investmentAccountRoi"],
                  [input |-> "loanRate"],
                  [input |-> "loanAmortizationYears"],
                  [input |-> "planningAge"],
                  [input |-> "decisionMarginPercent"] }
          [] s = 2 ->
                { [input |-> "newCapRate"],
                  [input |-> "newGrowthRate"],
                  [input |-> "newLoanToValue"] }
          [] OTHER -> { }]

\* The invalid property of a rendered field: showErrors && !requiredMap[..].
FieldInvalid(w, field) ==
    /\ "key" \in DOMAIN field
    /\ w.showErrors
    /\ ~requiredMap(w.inputs)[field.map][field.key]

\* Lines 110-115 of Field: parseFloat of the text of the input box, 0 when
\* the text is not a number.  A text may start with a minus sign.
Field_onChange(nextRaw) ==
    LET parsed ==
            IF nextRaw # << >> /\ Head(nextRaw) = "-"
            THEN LET magnitude == parseFloat(Tail(nextRaw))
                 IN  IF IsFinite(magnitude) THEN RNeg(magnitude) ELSE NaN
            ELSE parseFloat(nextRaw)
    IN  IF IsFinite(parsed) THEN parsed ELSE Zero

\* The texts a user leaves in an input box: nothing, a positive number and a
\* negative number.
TypedTexts == { << >>, << "7" >>, << "-", "5" >> }

\* The inputs that are edited: the ones requiredMap reads and one more.
EditedInputs ==
    { "currentPropertyValue", "currentPropertyAcb", "clientAge",
      "currentGrowthRate", "marginalTaxRate", "newLoanToValue", "newCapRate" }

\* onChange of a field of the step on screen: setInputs({...inputs, f: value}).
WizardEdit ==
    /\ wizard.mounted
    /\ \E field \in WizardFields[wizard.step], nextRaw \in TypedTexts :
           /\ field.input \in EditedInputs
           /\ wizard' = [wizard EXCEPT
                             !.inputs[field.input] = Field_onChange(nextRaw)]
    /\ UNCHANGED << decisionVars, callVars, earlier, storageVars, verdictPage >>

\* Lines 541-550: the Back button, disabled on the first step.
WizardBack ==
    /\ wizard.mounted
    /\ wizard.step # 0
    /\ wizard' = [wizard EXCEPT !.showErrors = FALSE,
                                !.step = IF @ - 1 > 0 THEN @ - 1 ELSE 0]
    /\ UNCHANGED << decisionVars, callVars, earlier, storageVars, verdictPage >>

\* Lines 216-224: what handleNext leaves of the state w.
handleNext(w) ==
    IF w.step >= Len(Wizard_steps) - 1 THEN w
    ELSE IF ~isStepValid(w) THEN [w EXCEPT !.showErrors = TRUE]
    ELSE [w EXCEPT !.showErrors = FALSE,
                   !.step = IF @ + 1 < Len(Wizard_steps) - 1 THEN @ + 1
                            ELSE Len(Wizard_steps) - 1]

\* Lines 551-557: the Continue button, disabled on the last step.
WizardContinue ==
    /\ wizard.mounted
    /\ wizard.step # Len(Wizard_steps) - 1
    /\ wizard' = handleNext(wizard)
    /\ UNCHANGED << decisionVars, callVars, earlier, storageVars, verdictPage >>

\* Line 483: the button of the results step that shows the yearly table.
WizardToggleAdvanced ==
    /\ wizard.mounted
    /\ wizard.step = 3
    /\ wizard' = [wizard EXCEPT !.showAdvanced = ~@]
    /\ UNCHANGED << decisionVars, callVars, earlier, storageVars, verdictPage >>

InitWizard ==
    /\ DecisionIdle
    /\ CallIdle
    /\ earlier = { }
    /\ StorageIdle
    /\ verdictPage = Unmounted
    /\ wizard = WizardMounted

NextWizard ==
    \/ WizardEdit
    \/ WizardBack
    \/ WizardContinue
    \/ WizardToggleAdvanced

SpecWizard == InitWizard /\ [][NextWizard]_vars

(***************************************************************************)
(* The Rental Purchase Verdict page: part_003, lines 120-672.              *)
(***************************************************************************)
\* Bound: the number of edits of fields and check boxes in one visit.
MaxEdits == 2

IntMin(a, b) == IF a < b THEN a ELSE b

\* Lines 31-36.
cities ==
    << [label |-> "Vancouver", taxRatePercent |-> Rat(311827, 1000000)],
       [label |-> "Coquitlam", taxRatePercent |-> Rat(319627, 1000000)],
       [label |-> "Port Moody", taxRatePercent |-> Rat(2566, 10000)],
       [label |-> "Port Coquitlam", taxRatePercent |-> Rat(35148, 100000)] >>

\* cities.find((item) => item.label === label): the city, or Absent.
FindCity(label) ==
    LET found == { i \in 1 .. Len(cities) : cities[i].label = label }
    IN  IF found = { } THEN Absent
        ELSE cities[CHOOSE i \in found : \A j \in found : i <= j]

\* Lines 38-46.
estimateRentRange(price) ==
    LET base == IF RGt(price, Zero) THEN RMul(price, Rat(3, 1000)) ELSE Zero
    IN  [low |-> RMul(base, Rat(88, 100)),
         median |-> base,
         high |-> RMul(base, Rat(112, 100)),
         source |-> "web-estimate"]

\* Line 273.
Verdict_steps ==
    << "URL", "Listing", "Rent", "Mortgage", "Assumptions", "Verdict" >>

\* The members of ListingExtract["confidence"] (part_000, lines 18-26).
ConfidenceMembers ==
    { "address", "bedrooms", "bathrooms", "sqft", "price", "hoa", "rentRange" }

\* Line 134: the empty object, every member undefined.
NoConfidence == [member \in ConfidenceMembers |-> "undefined"]

\* Lines 121-157: the values of useState at the first render.  runs holds
\* the calls of handleAutoFill that wait for their response, each with the
\* autoSyncMortgage its handlePriceChange closed over; edits counts the
\* edits made so far.
PageConstructed ==
    [mounted |-> TRUE,
     step |-> 0,
     city |-> cities[1],
     price |-> Num(1100000),
     address |-> << >>,
     bedrooms |-> Num(2),
     bathrooms |-> Num(2),
     sqft |-> Num(950),
     hoa |-> Num(350),
     listingUrl |-> << >>,
     listingHtml |-> << >>,
     autoSyncMortgage |-> TRUE,
     autoFillState |-> "idle",
     autoFillError |-> Absent,
     autoFillConfidence |-> NoConfidence,
     rentRange |-> estimateRentRange(Num(1100000)),
     useTaxOverride |-> FALSE,
     taxOverride |-> Zero,
     mortgage |-> [mortgageAmount |-> Num(800000),
                   interestRate |-> Rat(52, 10),
                   amortizationYears |-> Num(25),
                   paymentFrequency |-> "bi-weekly",
                   termYears |-> Num(5)],
     expenses |-> [vacancyPercent |-> Num(4),
                   maintenancePercent |-> Num(5),
                   managementPercent |-> Num(8),
                   reservesPercent |-> Num(3),
                   insuranceAnnual |-> Num(1200),
                   utilitiesAnnual |-> Num(1200),
                   hoaMonthly |-> Num(350),
                   propertyTaxAnnual |-> Zero],
     runs |-> << >>,
     edits |-> 0]

\* Lines 161-165: the body of the effect.
syncMortgage(p) ==
    IF ~p.autoSyncMortgage THEN p
    ELSE IF p.mortgage.mortgageAmount = p.price THEN p
    ELSE [p EXCEPT !.mortgage.mortgageAmount = p.price]

\* Line 166: the effect runs after a render in which autoSyncMortgage or
\* price differs from the render before.
Commit(prev, next) ==
    IF << next.autoSyncMortgage, next.price >>
           # << prev.autoSyncMortgage, prev.price >>
    THEN syncMortgage(next)
    ELSE next

\* The page once it has mounted and the effect has run for the first time.
PageMounted == syncMortgage(PageConstructed)

\* Lines 168-173.
estimatedTax(p) ==
    IF RLeq(p.price, Zero) THEN Zero
    ELSE RMul(RDiv(p.city.taxRatePercent, Hundred), p.price)

effectiveTax(p) == IF p.useTaxOverride THEN p.taxOverride ELSE estimatedTax(p)

\* Lines 159 and 191-203: what the mortgage and the investment calculators
\* are called with.  The annual debt service is the payment of
\* calculateMortgage(mortgage) times the payments per year.
investmentArguments(p) ==
    [price |-> p.price,
     rentRange |-> p.rentRange,
     expenses |-> [p.expenses EXCEPT !.propertyTaxAnnual = effectiveTax(p),
                                     !.hoaMonthly = p.hoa],
     mortgage |-> p.mortgage]

\* Lines 193-202 for a given annual debt service.
investment(p, annualDebtService) ==
    CHOOSE results \in
        { calculateInvestment(arguments.price, arguments.rentRange,
                              arguments.expenses, annualDebtService) :
            arguments \in { investmentArguments(p) } } : TRUE

\* Line 274.
isUrlValid(p) ==
    \/ Len(Trim(p.listingUrl, IsBlankChar)) > 0
    \/ Len(Trim(p.listingHtml, IsBlankChar)) > 0

\* Lines 102-105 of Field: parseFloat of the text of the input box, 0 when
\* the text is not a number.
VerdictField_onChange(raw) ==
    LET parsed ==
            IF raw # << >> /\ Head(raw) = "-"
            THEN LET magnitude == parseFloat(Tail(raw))
                 IN  IF IsFinite(magnitude) THEN RNeg(magnitude) ELSE NaN
            ELSE parseFloat(raw)
    IN  IF IsFinite(parsed) THEN parsed ELSE Zero

\* Lines 223-229, with the autoSyncMortgage of the render whose
\* handlePriceChange is called.
handlePriceChange(p, sync, value) ==
    [p EXCEPT !.price = value,
              !.rentRange = estimateRentRange(value),
              !.mortgage.mortgageAmount = IF sync THEN value ELSE @]

\* Lines 231-244 with the price taken only from an extract whose price is
\* not of low confidence.
applyExtract_TrustsConfidence(p, sync, extract) ==
    LET selected == FindCity(extract.city)
        listed == [p EXCEPT !.address = extract.address,
                            !.bedrooms = extract.bedrooms,
                            !.bathrooms = extract.bathrooms,
                            !.sqft = extract.sqft,
                            !.city = IF selected # Absent THEN selected ELSE @]
        priced == IF extract.confidence.price = "low" THEN listed
                  ELSE handlePriceChange(listed, sync, extract.price)
    IN  [priced EXCEPT
            !.hoa = extract.hoa,
            !.rentRange = IF RGt(extract.rentRange.median, Zero)
                          THEN extract.rentRange ELSE @,
            !.autoFillConfidence = extract.confidence]

\* Lines 231-244.
applyExtract(p, sync, extract) ==
    LET selected == FindCity(extract.city)
        listed == [p EXCEPT !.address = extract.address,
                            !.bedrooms = extract.bedrooms,
                            !.bathrooms = extract.bathrooms,
                            !.sqft = extract.sqft,
                            !.city = IF selected # Absent THEN selected ELSE @]
        priced == handlePriceChange(listed, sync, extract.price)
    IN  [priced EXCEPT
            !.hoa = extract.hoa,
            !.rentRange = IF RGt(extract.rentRange.median, Zero)
                          THEN extract.rentRange ELSE @,
            !.autoFillConfidence = extract.confidence]

\* The sequence without its i-th element.
RemoveAt(s, i) == SubSeq(s, 1, i - 1) \o SubSeq(s, i + 1, Len(s))

\* Lines 247-249: handleAutoFill up to the request.
AutoFillStarted(p) ==
    IF ~isUrlValid(p) THEN p
    ELSE [p EXCEPT !.autoFillState = "loading",
                   !.autoFillError = Absent,
                   !.runs = Append(@, [autoSyncMortgage |-> p.autoSyncMortgage])]

\* Lines 260-265 and 269: the response carries data.
AutoFillSucceeded(p, run, data) ==
    LET applied == applyExtract(p, p.runs[run].autoSyncMortgage, data)
        taxed == IF data.propertyTaxAnnual # Zero /\ IsFinite(data.propertyTaxAnnual)
                 THEN [applied EXCEPT !.useTaxOverride = TRUE,
                                      !.taxOverride = data.propertyTaxAnnual]
                 ELSE applied
    IN  [taxed EXCEPT !.step = IntMin(@ + 1, Len(Verdict_steps) - 1),
                      !.autoFillState = "idle",
                      !.runs = RemoveAt(@, run)]

\* Lines 266-269 with the state left at "loading".
AutoFillFailed_NoFinally(p, run, message) ==
    [p EXCEPT !.autoFillError = [message |-> message],
              !.runs = RemoveAt(@, run)]

\* Lines 257-258 and 266-269: the request failed with the message.
AutoFillFailed(p, run, message) ==
    [p EXCEPT !.autoFillError = [message |-> message],
              !.autoFillState = "idle",
              !.runs = RemoveAt(@, run)]

\* Whether the control of the event e is on screen and enabled.
Can(p, e) ==
    CASE e.kind \in { "listingUrl", "listingHtml", "skip" } -> p.step = 0
      [] e.kind = "autoFill" ->
             p.step = 0 /\ isUrlValid(p) /\ p.autoFillState # "loading"
      [] e.kind \in { "success", "errorPayload", "throws" } ->
             e.run \in 1 .. Len(p.runs)
      [] e.kind = "back" -> p.step # 0
      [] e.kind = "continue" ->
             ~(p.step = Len(Verdict_steps) - 1 \/ (p.step = 0 /\ ~isUrlValid(p)))
      [] e.kind \in { "address", "city", "price", "listing" } -> p.step = 1
      [] e.kind = "rentRange" -> p.step = 2
      [] e.kind \in { "autoSyncMortgage", "mortgageAmount" } -> p.step = 3
      [] e.kind = "useTaxOverride" -> p.step = 4
      [] e.kind = "taxOverride" -> p.step = 4 /\ p.useTaxOverride

\* What the handler of the event e makes of the state p.
Handle(p, e) ==
    CASE e.kind = "listingUrl" -> [p EXCEPT !.listingUrl = e.text]
      [] e.kind = "listingHtml" -> [p EXCEPT !.listingHtml = e.text]
      [] e.kind = "skip" -> [p EXCEPT !.step = 1]
      [] e.kind = "autoFill" -> AutoFillStarted(p)
      [] e.kind = "success" -> AutoFillSucceeded(p, e.run, e.data)
      [] e.kind \in { "errorPayload", "throws" } ->
             AutoFillFailed(p, e.run, e.message)
      [] e.kind = "back" -> [p EXCEPT !.step = IntMax(0, @ - 1)]
      [] e.kind = "continue" ->
             [p EXCEPT !.step = IntMin(Len(Verdict_steps) - 1, @ + 1)]
      [] e.kind = "address" -> [p EXCEPT !.address = e.text]
      [] e.kind = "city" ->
             IF FindCity(e.label) # Absent
             THEN [p EXCEPT !.city = FindCity(e.label)] ELSE p
      [] e.kind = "price" ->
             handlePriceChange(p, p.autoSyncMortgage,
                               VerdictField_onChange(e.text))
      [] e.kind = "listing" ->
             [p EXCEPT ![e.field] = VerdictField_onChange(e.text)]
      [] e.kind = "rentRange" ->
             [p EXCEPT !.rentRange[e.member] = VerdictField_onChange(e.text),
                       !.rentRange.source = "manual"]
      [] e.kind = "autoSyncMortgage" -> [p EXCEPT !.autoSyncMortgage = e.checked]
      [] e.kind = "mortgageAmount" ->
             [p EXCEPT !.mortgage.mortgageAmount = VerdictField_onChange(e.text)]
      [] e.kind = "useTaxOverride" -> [p EXCEPT !.useTaxOverride = e.checked]
      [] e.kind = "taxOverride" ->
             [p EXCEPT !.taxOverride = VerdictField_onChange(e.text)]

\* The state once the handler has run and the effects have settled.
After(p, e) ==
    CHOOSE settled \in { Commit(p, next) : next \in { Handle(p, e) } } : TRUE

\* The texts that are typed into the number fields and the text fields.
NumberTexts == { << >>, << "5", "0", "0" >> }
CountTexts == { << "3" >> }
UrlTexts == { << >>, << " " >>, << "u" >> }
HtmlTexts == { << >>, << "h" >> }
AddressTexts == { << "A" >> }

ConfidenceLevels == { "high", "low" }
Confidences ==
    { [member \in ConfidenceMembers |-> level] : level \in ConfidenceLevels }

\* The listings a response carries: one with every field found and a rent
\* estimate of the provider, and what the route answers for a page in which
\* it found nothing; each with every confidence.
Extracts ==
    { [address |-> listing.address, city |-> listing.city,
       bedrooms |-> listing.bedrooms, bathrooms |-> listing.bathrooms,
       sqft |-> listing.sqft, price |-> listing.price, hoa |-> listing.hoa,
       propertyTaxAnnual |-> listing.propertyTaxAnnual,
       rentRange |-> listing.rentRange, confidence |-> confidence] :
        listing \in
            { [address |-> << "A" >>, city |-> "Coquitlam",
               bedrooms |-> Num(3), bathrooms |-> Num(1), sqft |-> Num(700),
               price |-> Num(4000), hoa |-> Num(100),
               propertyTaxAnnual |-> Num(30),
               rentRange |-> [low |-> Num(12), median |-> Num(15),
                              high |-> Num(18), source |-> "provider-estimate"]],
              [address |-> << >>, city |-> "Burnaby",
               bedrooms |-> Zero, bathrooms |-> Zero, sqft |-> Zero,
               price |-> Zero, hoa |-> Zero,
               propertyTaxAnnual |-> Zero,
               rentRange |-> [low |-> Zero, median |-> Zero,
                              high |-> Zero, source |-> "provider-estimate"]] },
        confidence \in Confidences }

\* The message of an error payload, or the one that stands in for it.
PayloadMessages ==
    { "Provider connection not configured for URL fetch.",
      "Unable to fetch listing data." }

\* The message of what fetch or response.json() threw.
ThrownMessages == { "Failed to fetch" }

\* The edits of fields and check boxes.
EditEvents ==
    { [kind |-> "listingUrl", text |-> text] : text \in UrlTexts }
    \cup { [kind |-> "listingHtml", text |-> text] : text \in HtmlTexts }
    \cup { [kind |-> "address", text |-> text] : text \in AddressTexts }
    \cup { [kind |-> "city", label |-> cities[i].label] : i \in { 2, 3 } }
    \cup { [kind |-> "price", text |-> text] : text \in NumberTexts }
    \cup { [kind |-> "listing", field |-> field, text |-> text] :
            field \in { "bedrooms", "bathrooms", "sqft", "hoa" },
            text \in CountTexts }
    \cup { [kind |-> "rentRange", member |-> "median", text |-> text] :
            text \in NumberTexts }
    \cup { [kind |-> "rentRange", member |-> member, text |-> text] :
            member \in { "low", "high" }, text \in CountTexts }
    \cup { [kind |-> "autoSyncMortgage", checked |-> checked] :
            checked \in BOOLEAN }
    \cup { [kind |-> "mortgageAmount", text |-> text] : text \in NumberTexts }
    \cup { [kind |-> "useTaxOverride", checked |-> checked] :
            checked \in BOOLEAN }
    \cup { [kind |-> "taxOverride", text |-> text] : text \in NumberTexts }

\* The clicks on buttons and the responses of the requests.
ButtonEvents ==
    { [kind |-> kind] : kind \in { "skip", "autoFill", "back", "continue" } }

ResponseEvents ==
    { [kind |-> "success", run |-> 1, data |-> data] : data \in Extracts }
    \cup { [kind |-> "errorPayload", run |-> 1, message |-> message] :
            message \in PayloadMessages }
    \cup { [kind |-> "throws", run |-> 1, message |-> message] :
            message \in ThrownMessages }

Events == EditEvents \cup ButtonEvents \cup ResponseEvents

\* The event e happens: its handler runs and the effects settle.
Happens(e) ==
    /\ verdictPage.mounted
    /\ Can(verdictPage, e)
    /\ verdictPage' = After(verdictPage, e)
    /\ UNCHANGED << decisionVars, callVars, earlier, storageVars, wizard >>

\* The edit e happens, if the visit has edits left.
Edits(e) ==
    /\ verdictPage.mounted
    /\ Can(verdictPage, e)
    /\ verdictPage.edits < MaxEdits
    /\ verdictPage' = [After(verdictPage, e) EXCEPT !.edits = @ + 1]
    /\ UNCHANGED << decisionVars, callVars, earlier, storageVars, wizard >>

\* Lines 316 and 325.
UrlEdit == \E e \in EditEvents : e.kind = "listingUrl" /\ Edits(e)
HtmlEdit == \E e \in EditEvents : e.kind = "listingHtml" /\ Edits(e)
\* Lines 365, 380-383, 395 and 402-424: the fields of the listing step.
AddressEdit == \E e \in EditEvents : e.kind = "address" /\ Edits(e)
CitySelect == \E e \in EditEvents : e.kind = "city" /\ Edits(e)
PriceEdit == \E e \in EditEvents : e.kind = "price" /\ Edits(e)
ListingEdit == \E e \in EditEvents : e.kind = "listing" /\ Edits(e)
\* Lines 437-451.
RentEdit == \E e \in EditEvents : e.kind = "rentRange" /\ Edits(e)
\* Lines 471 and 479.
AutoSyncToggle ==
    \E e \in EditEvents :
        /\ e.kind = "autoSyncMortgage"
        /\ e.checked = ~verdictPage.autoSyncMortgage
        /\ Edits(e)
MortgageAmountEdit == \E e \in EditEvents : e.kind = "mortgageAmount" /\ Edits(e)
\* Lines 575 and 585.
TaxOverrideToggle ==
    \E e \in EditEvents :
        /\ e.kind = "useTaxOverride"
        /\ e.checked = ~verdictPage.useTaxOverride
        /\ Edits(e)
TaxOverrideEdit == \E e \in EditEvents : e.kind = "taxOverride" /\ Edits(e)

\* Lines 337-338, 350, 656-657 and 663-664: the buttons.
AutoFillStart == \E e \in ButtonEvents : e.kind = "autoFill" /\ Happens(e)
SkipToManual == \E e \in ButtonEvents : e.kind = "skip" /\ Happens(e)
VerdictBack == \E e \in ButtonEvents : e.kind = "back" /\ Happens(e)
VerdictContinue == \E e \in ButtonEvents : e.kind = "continue" /\ Happens(e)

\* Lines 256-265: the response is ok and carries data.
AutoFillSuccess == \E e \in ResponseEvents : e.kind = "success" /\ Happens(e)
\* Lines 257-258: the response is not ok or carries no data.
AutoFillErrorPayload ==
    \E e \in ResponseEvents : e.kind = "errorPayload" /\ Happens(e)
\* Lines 251-256: fetch or response.json() throws.
AutoFillThrows == \E e \in ResponseEvents : e.kind = "throws" /\ Happens(e)

\* A run of handleAutoFill ends.
AutoFillResponse == AutoFillSuccess \/ AutoFillErrorPayload \/ AutoFillThrows

InitVerdict ==
    /\ DecisionIdle
    /\ CallIdle
    /\ earlier = { }
    /\ StorageIdle
    /\ wizard = Unmounted
    /\ verdictPage = PageMounted

NextVerdict ==
    \/ UrlEdit
    \/ HtmlEdit
    \/ AddressEdit
    \/ CitySelect
    \/ PriceEdit
    \/ ListingEdit
    \/ RentEdit
    \/ AutoSyncToggle
    \/ MortgageAmountEdit
    \/ TaxOverrideToggle
    \/ TaxOverrideEdit
    \/ AutoFillStart
    \/ SkipToManual
    \/ VerdictBack
    \/ VerdictContinue
    \/ AutoFillSuccess
    \/ AutoFillErrorPayload
    \/ AutoFillThrows

SpecVerdict == InitVerdict /\ [][NextVerdict]_vars

\* The visits in which a listing is parsed and its fields are then edited by
\* hand.
NextListing ==
    \/ UrlEdit
    \/ AddressEdit
    \/ CitySelect
    \/ PriceEdit
    \/ ListingEdit
    \/ RentEdit
    \/ AutoFillStart
    \/ SkipToManual
    \/ VerdictBack
    \/ VerdictContinue
    \/ AutoFillSuccess
    \/ AutoFillErrorPayload

SpecListing == InitVerdict /\ [][NextListing]_vars

\* The visits in which the listing is parsed: the url and the html are
\* typed, the buttons are clicked, the responses arrive, and the price and
\* the address are edited by hand.
NextAutoFill ==
    \/ UrlEdit
    \/ HtmlEdit
    \/ AddressEdit
    \/ PriceEdit
    \/ AutoFillStart
    \/ SkipToManual
    \/ VerdictBack
    \/ VerdictContinue
    \/ AutoFillSuccess
    \/ AutoFillErrorPayload
    \/ AutoFillThrows

\* The browser settles every request, and the continuation of handleAutoFill
\* then runs: a run that waits for its response gets one.
SpecAutoFill ==
    InitVerdict /\ [][NextAutoFill]_vars /\ WF_vars(AutoFillResponse)

(***************************************************************************)
(* Properties of calculateDecision.                                        *)
(***************************************************************************)
Done == pc = "done"
LastOf(s) == s[Len(s)]
Percent(x) == RDiv(safeNumber(x), Hundred)
DeltaAtPlanning ==
    RSub(LastOf(newSnapshots).strategyValue, LastOf(currentSnapshots).strategyValue)

\* C1: the decision is YES exactly when the sell strategy's value in the last
\* (planning-age) entry is at least the keep strategy's value in the last
\* entry times (1 + margin/100), and NO otherwise; currentAtPlanning and
\* newAtPlanning are those last entries, so no other year decides.
C1_DecisionAtPlanningAge ==
    Done =>
        /\ result.currentAtPlanning = LastOf(currentSnapshots)
        /\ result.newAtPlanning = LastOf(newSnapshots)
        /\ result.currentAtPlanning.age = planningAge
        /\ result.newAtPlanning.age = planningAge
        /\ result.decision \in { "YES", "NO" }
        /\ (result.decision = "YES") <=>
               RGeq(LastOf(newSnapshots).strategyValue,
                    RMul(LastOf(currentSnapshots).strategyValue,
                         RAdd(One, Percent(input.decisionMarginPercent))))

\* A finished call over several years that says YES although the first
\* year's values alone would have said NO.
C1_Witness ==
    /\ Done
    /\ Len(series) >= 2
    /\ result.decision = "YES"
    /\ RLt(newSnapshots[1].strategyValue,
           RMul(currentSnapshots[1].strategyValue,
                RAdd(One, Percent(input.decisionMarginPercent))))

\* C2: with a margin >= 0, a YES decision implies that the sell strategy's
\* value at the planning age is at least the keep strategy's value there.
C2_YesNeverBehind ==
    (Done /\ RGeq(safeNumber(input.decisionMarginPercent), Zero)
          /\ result.decision = "YES")
        => RGeq(DeltaAtPlanning, Zero)

\* C3: the reason says that the new strategy exceeds the current one only
\* when the delta at the planning age is >= 0, says that the current strategy
\* remains ahead only when the delta is <= 0, and the amount it shows is the
\* delta (its magnitude in the second wording) in whole dollars.
C3_ReasonTruthful ==
    Done =>
        /\ result.decisionReason.text = "New strategy exceeds current by" =>
               /\ RGeq(DeltaAtPlanning, Zero)
               /\ result.decisionReason.amount = FormatCurrency(DeltaAtPlanning)
        /\ result.decisionReason.text = "Current strategy remains ahead by" =>
               /\ RLeq(DeltaAtPlanning, Zero)
               /\ result.decisionReason.amount = FormatCurrency(MathAbs(DeltaAtPlanning))

\* C4: with clientAge rounded and planningAge rounded and clamped, the three
\* series hold the ages clientAge, clientAge + 1, ... in order without gaps;
\* when the loop has ended they hold exactly planningAge - clientAge + 1
\* entries; a given planningAge <= clientAge gives one entry and
\* result.planningAge = clientAge; the planning snapshots are the last entries.
C4_SeriesCoversAges ==
    LET cAge == MathRound(safeNumber(input.clientAge))
        pAge == IntMax(cAge, MathRound(safeNumber(input.planningAge)))
        AgesFrom(s) == \A k \in 1..Len(s) : s[k].age = cAge + k - 1
    IN  pc # "setup" =>
            /\ Len(currentSnapshots) = Len(series)
            /\ Len(newSnapshots) = Len(series)
            /\ AgesFrom(series) /\ AgesFrom(currentSnapshots) /\ AgesFrom(newSnapshots)
            /\ (Done \/ ~(index < years)) => Len(series) = pAge - cAge + 1
            /\ Done =>
                   /\ result.series = series
                   /\ result.currentSeries = currentSnapshots
                   /\ result.newSeries = newSnapshots
                   /\ result.planningAge = pAge
                   /\ LastOf(result.series).age = pAge
                   /\ result.currentAtPlanning = LastOf(result.currentSeries)
                   /\ result.newAtPlanning = LastOf(result.newSeries)
                   /\ RLeq(safeNumber(input.planningAge), safeNumber(input.clientAge)) =>
                          /\ Len(result.series) = 1
                          /\ result.series[1].age = cAge
                          /\ result.planningAge = cAge

\* A finished call whose fractional ages 70.5 and 71.5 round to 71 and 72.
C4_Witness ==
    /\ Done
    /\ input.clientAge = Rat(141, 2)
    /\ input.planningAge = Rat(143, 2)
    /\ Len(result.series) = 2
    /\ result.series[1].age = 71
    /\ LastOf(result.series).age = 72

\* A finished call whose given planning age is below the client age.
C4_WitnessClamped ==
    /\ Done
    /\ RLt(input.planningAge, input.clientAge)
    /\ Len(result.series) = 1

\* C5: breakEvenAge is null exactly when every delta is < 0; otherwise it is
\* the age, within [clientAge, planningAge], of an entry with delta >= 0 all
\* of whose predecessors have delta < 0.
C5_BreakEvenFirstCrossing ==
    Done =>
        /\ (result.breakEvenAge = Null) <=>
               \A k \in 1..Len(result.series) : RLt(result.series[k].delta, Zero)
        /\ result.breakEvenAge # Null =>
               /\ result.breakEvenAge[1] \in clientAge..planningAge
               /\ \E k \in 1..Len(result.series) :
                      /\ result.series[k].age = result.breakEvenAge[1]
                      /\ RGeq(result.series[k].delta, Zero)
                      /\ \A j \in 1..(k - 1) : RLt(result.series[j].delta, Zero)

\* A break-even age after the first year, followed by a later year that is
\* also not behind.
C5_Witness ==
    /\ Done
    /\ result.breakEvenAge # Null
    /\ result.breakEvenAge[1] > clientAge
    /\ result.breakEvenAge[1] < planningAge
    /\ RGeq(LastOf(result.series).delta, Zero)

\* C6: peakDeltaValue is the maximum of newValue - currentValue over the
\* series, peakDeltaAge is the smallest age attaining it, and peakDeltaAge is
\* never null and lies within [clientAge, planningAge].
C6_PeakIsFirstMaximum ==
    Done =>
        /\ result.peakDeltaAge # Null
        /\ result.peakDeltaAge[1] \in clientAge..planningAge
        /\ \A k \in 1..Len(result.series) :
               RLeq(RSub(result.series[k].newValue, result.series[k].currentValue),
                    result.peakDeltaValue)
        /\ \E k \in 1..Len(result.series) :
               /\ result.series[k].age = result.peakDeltaAge[1]
               /\ RSub(result.series[k].newValue, result.series[k].currentValue)
                      = result.peakDeltaValue
               /\ \A j \in 1..(k - 1) :
                      RLt(RSub(result.series[j].newValue, result.series[j].currentValue),
                          result.peakDeltaValue)

\* The maximum is attained in two different years.
C6_Witness ==
    /\ Done
    /\ \E j, k \in 1..Len(result.series) :
           /\ j < k
           /\ result.series[j].delta = result.peakDeltaValue
           /\ result.series[k].delta = result.peakDeltaValue

\* The maximum is attained after the first year only.
C6_WitnessLate ==
    /\ Done
    /\ result.peakDeltaAge # Null
    /\ result.peakDeltaAge[1] > clientAge

\* C7: every snapshot has strategyValue = propertyValue - mortgageBalance -
\* capitalGainsTax + investmentAccount; capitalGainsTax is 0 in the sell
\* series and (propertyValue - ACB) * inclusionRate% * marginalTaxRate% in the
\* keep series; each series delta is the sell minus the keep strategy value.
C7_StrategyValueIdentity ==
    LET Identity(s) ==
            s.strategyValue =
                RAdd(RSub(RSub(s.propertyValue, s.mortgageBalance), s.capitalGainsTax),
                     s.investmentAccount)
    IN  /\ \A k \in 1..Len(currentSnapshots) :
               /\ Identity(currentSnapshots[k])
               /\ currentSnapshots[k].capitalGainsTax =
                      RMul(RMul(RSub(currentSnapshots[k].propertyValue,
                                     safeNumber(input.currentPropertyAcb)),
                                Percent(input.capitalGainsInclusionRate)),
                           Percent(input.marginalTaxRate))
        /\ \A k \in 1..Len(newSnapshots) :
               /\ Identity(newSnapshots[k])
               /\ newSnapshots[k].capitalGainsTax = Zero
        /\ \A k \in 1..Len(series) :
               /\ series[k].delta =
                      RSub(newSnapshots[k].strategyValue,
                           currentSnapshots[k].strategyValue)
               /\ series[k].age = currentSnapshots[k].age
               /\ series[k].age = newSnapshots[k].age

\* A later year whose keep snapshot carries a capital-gains tax that is not 0
\* while both strategies own property and hold an investment balance.
C7_Witness ==
    \E k \in 2..Len(series) :
        /\ currentSnapshots[k].capitalGainsTax # Zero
        /\ currentSnapshots[k].investmentAccount # Zero
        /\ newSnapshots[k].propertyValue # Zero
        /\ newSnapshots[k].investmentAccount # Zero

\* C8: in each strategy investment(0) = cashFlow(0) and investment(t) =
\* investment(t-1) * (1 + ROI% * (1 - marginalTaxRate%)) + cashFlow(t), with
\* the same factor for both strategies and no flooring of a negative balance.
C8_InvestmentRecurrence ==
    LET factor ==
            RAdd(One, RMul(Percent(input.investmentAccountRoi),
                           RSub(One, Percent(input.marginalTaxRate))))
        Follows(s) ==
            \A k \in 1..Len(s) :
                s[k].investmentAccount =
                    IF k = 1 THEN s[k].cashFlow
                    ELSE RAdd(RMul(s[k - 1].investmentAccount, factor), s[k].cashFlow)
    IN  Follows(currentSnapshots) /\ Follows(newSnapshots)

\* A negative balance is carried into a later year and compounds there.
C8_Witness ==
    \E k \in 2..Len(series) :
        /\ RLt(currentSnapshots[k - 1].investmentAccount, Zero)
        /\ RLt(currentSnapshots[k].investmentAccount,
               currentSnapshots[k].cashFlow)
        /\ RGt(newSnapshots[k - 1].investmentAccount, Zero)
        /\ investmentGrowth # One

\* C9: in each strategy and every year cashFlow = netIncome - taxPayable -
\* annualDebtService, where annualDebtService is 12 times the monthly payment
\* on the strategy's starting mortgage, the same in every year, also in the
\* years in which the mortgage balance is already 0.
C9_CashFlowConstantDebtService ==
    LET Service(s) ==
            RMul(calculateMonthlyPayment(s[1].mortgageBalance, input.loanRate,
                                         input.loanAmortizationYears),
                 Num(12))
        Holds(s) ==
            \A k \in 1..Len(s) :
                s[k].cashFlow =
                    RSub(RSub(s[k].netIncome, s[k].taxPayable), Service(s))
    IN  /\ Holds(currentSnapshots)
        /\ Holds(newSnapshots)
        /\ Len(currentSnapshots) >= 1 =>
               currentSnapshots[1].mortgageBalance =
                   MathMax(Zero, safeNumber(input.currentMortgageBalance))

\* A year in which a strategy's mortgage is paid off while its debt service,
\* which is not 0, is still deducted.
C9_Witness ==
    \E k \in 2..Len(series) :
        /\ currentSnapshots[k].mortgageBalance = Zero
        /\ RGt(currentBalances.annualDebtService, Zero)
        /\ newSnapshots[k].mortgageBalance = Zero
        /\ RGt(newBalances.annualDebtService, Zero)

\* C10: in each strategy and every year taxPayable = (capRate% *
\* propertyValue - mortgageBalance * loanRate%) * marginalTaxRate%, not
\* floored at 0: when the interest exceeds the net income and the marginal
\* tax rate is positive, taxPayable is negative and the cash flow is above
\* netIncome - annualDebtService.
C10_TaxPayableNotFloored ==
    LET Holds(s, capRate, built) ==
            \A k \in 1..Len(s) :
                LET income == RMul(Percent(capRate), s[k].propertyValue)
                    interest == RMul(s[k].mortgageBalance, Percent(input.loanRate))
                IN  /\ s[k].netIncome = income
                    /\ s[k].taxPayable =
                           RMul(RSub(income, interest), Percent(input.marginalTaxRate))
                    /\ (RGt(interest, income)
                          /\ RGt(safeNumber(input.marginalTaxRate), Zero)) =>
                           /\ RLt(s[k].taxPayable, Zero)
                           /\ RGt(s[k].cashFlow,
                                  RSub(s[k].netIncome, built.annualDebtService))
    IN  /\ Holds(currentSnapshots, input.currentCapRate, currentBalances)
        /\ Holds(newSnapshots, input.newCapRate, newBalances)

\* Both strategies have a year with a negative tax payable.
C10_Witness ==
    /\ \E k \in 1..Len(currentSnapshots) : RLt(currentSnapshots[k].taxPayable, Zero)
    /\ \E k \in 1..Len(newSnapshots) : RLt(newSnapshots[k].taxPayable, Zero)

\* C11: the net sale proceeds are max(0, value - mortgage - (value - ACB) *
\* inclusion% * marginal% - (realtor% + transfer%) * value); they are never
\* negative, and the capital-gains term is not floored: with the ACB above
\* the value and a positive tax rate, positive proceeds exceed
\* value - mortgage - selling costs.
C11_NetSaleProceeds ==
    pc # "setup" =>
        LET value == safeNumber(input.currentPropertyValue)
            gainsTax ==
                RMul(RMul(RSub(value, safeNumber(input.currentPropertyAcb)),
                          Percent(input.capitalGainsInclusionRate)),
                     Percent(input.marginalTaxRate))
            costs ==
                RMul(RAdd(Percent(input.realtorFeesPercent),
                          Percent(input.propertyTransferTaxPercent)), value)
            untaxed ==
                RSub(RSub(value, safeNumber(input.currentMortgageBalance)), costs)
        IN  /\ netSaleProceeds = MathMax(Zero, RSub(untaxed, gainsTax))
            /\ RGeq(netSaleProceeds, Zero)
            /\ (/\ RGt(safeNumber(input.currentPropertyAcb), value)
                /\ RGt(safeNumber(input.marginalTaxRate), Zero)
                /\ RGt(netSaleProceeds, Zero)) =>
                   RGt(netSaleProceeds, untaxed)

\* A sale below the ACB at a positive tax rate: 100 - 48 + 15 - 5 = 62.
C11_Witness ==
    /\ pc # "setup"
    /\ RGt(safeNumber(input.currentPropertyAcb),
           safeNumber(input.currentPropertyValue))
    /\ RGt(safeNumber(input.marginalTaxRate), Zero)
    /\ netSaleProceeds = Num(62)

\* A mortgage above the value: the proceeds are clamped to 0.
C11_WitnessClamped ==
    /\ pc # "setup"
    /\ RGt(safeNumber(input.currentMortgageBalance),
           safeNumber(input.currentPropertyValue))
    /\ netSaleProceeds = Zero

\* C12 as stated: for every loan-to-value below 1 the replacement property is
\* proceeds / (1 - LTV) and its mortgage is that value times LTV, so that
\* value - mortgage = proceeds; at LTV >= 1 both are 0 in every snapshot.
C12_SizedForEveryLtvBelowOne ==
    pc # "setup" =>
        LET ltv == Percent(input.newLoanToValue)
        IN  IF RLt(ltv, One)
            THEN /\ newPropertyValueStart = RDiv(netSaleProceeds, RSub(One, ltv))
                 /\ newMortgageStart = RMul(newPropertyValueStart, ltv)
                 /\ RSub(newPropertyValueStart, newMortgageStart) = netSaleProceeds
            ELSE /\ newPropertyValueStart = Zero
                 /\ newMortgageStart = Zero

\* C12, amended: for 0 <= LTV < 1 the replacement property is proceeds /
\* (1 - LTV) and its mortgage is that value times LTV, so that value -
\* mortgage = proceeds and the first sell snapshot carries both; for LTV < 0
\* the value is still proceeds / (1 - LTV) but the mortgage is floored at 0;
\* at LTV >= 1 both are 0 and every sell snapshot has propertyValue 0 and
\* mortgageBalance 0.
C12_ReplacementSizing ==
    pc # "setup" =>
        LET ltv == Percent(input.newLoanToValue)
        IN  /\ RGeq(ltv, One) =>
                /\ newPropertyValueStart = Zero
                /\ newMortgageStart = Zero
                /\ \A k \in 1..Len(newSnapshots) :
                       /\ newSnapshots[k].propertyValue = Zero
                       /\ newSnapshots[k].mortgageBalance = Zero
            /\ RLt(ltv, One) =>
                /\ newPropertyValueStart = RDiv(netSaleProceeds, RSub(One, ltv))
                /\ Len(newSnapshots) > 0 =>
                       /\ newSnapshots[1].propertyValue = newPropertyValueStart
                       /\ newSnapshots[1].mortgageBalance = newMortgageStart
            /\ (RLt(ltv, One) /\ RGeq(ltv, Zero)) =>
                /\ newMortgageStart = RMul(newPropertyValueStart, ltv)
                /\ RSub(newPropertyValueStart, newMortgageStart) = netSaleProceeds
            /\ RLt(ltv, Zero) => newMortgageStart = Zero

\* A half-financed purchase from positive proceeds, in its first snapshot.
C12_Witness ==
    /\ Len(newSnapshots) > 0
    /\ Percent(input.newLoanToValue) = Rat(1, 2)
    /\ RGt(netSaleProceeds, Zero)
    /\ newSnapshots[1].propertyValue = RMul(Num(2), netSaleProceeds)
    /\ newSnapshots[1].mortgageBalance = netSaleProceeds

\* A loan-to-value of 100%: nothing is bought.
C12_WitnessNoEquity ==
    /\ Len(newSnapshots) > 0
    /\ Percent(input.newLoanToValue) = One
    /\ RGt(netSaleProceeds, Zero)
    /\ newSnapshots[1].propertyValue = Zero

(***************************************************************************)
(* Properties of the mortgage helpers and of calculateMortgage.            *)
(***************************************************************************)
Returned == callPc = "returned"

\* One month of an amortization trace: the interest on the balance, the rest
\* of the payment (never negative) as principal, the balance floored at 0.
MonthlyTraceStep(balance, monthlyPayment, monthlyRate) ==
    MathMax(Zero,
            RSub(balance,
                 MathMax(Zero, RSub(monthlyPayment, RMul(balance, monthlyRate)))))

\* The balance m payments later.
RECURSIVE MonthlyTraceAfter(_, _, _, _)
MonthlyTraceAfter(balance, monthlyPayment, monthlyRate, m) ==
    IF m = 0 THEN balance
    ELSE CHOOSE later \in
             { MonthlyTraceAfter(next, monthlyPayment, monthlyRate, m - 1) :
                 next \in { MonthlyTraceStep(balance, monthlyPayment,
                                             monthlyRate) } } : TRUE

\* The balance of a monthly amortization trace after m payments: periodic
\* rate annualRate/100/12 and the level payment of calculateMonthlyPayment.
MonthlyTraceBalance(startingBalance, annualRate, termYears, m) ==
    CHOOSE later \in
        UNION { { MonthlyTraceAfter(start, monthlyPayment, monthlyRate, m) :
                    monthlyPayment \in
                        { calculateMonthlyPayment(start, annualRate, termYears) },
                    monthlyRate \in
                        { MathMax(Zero, RDiv(RDiv(safeNumber(annualRate), Hundred),
                                             Num(12))) } } :
                start \in { MathMax(Zero, safeNumber(startingBalance)) } } : TRUE

\* C13: the mortgage balance of year index t is the balance of the monthly
\* amortization trace after 12 * t payments, floored at 0, and the balance of
\* year index 0 is the starting balance.
C13_BalancesFollowMonthlyTrace ==
    (Returned /\ call.fn = "buildMortgageBalances") =>
        /\ Len(returned.balances) = call.years
        /\ \A k \in 1..call.years :
               returned.balances[k] =
                   MonthlyTraceBalance(call.loanAmount, call.annualRate,
                                       call.termYears, 12 * (k - 1))

\* Without interest the yearly balances are those of the monthly trace: 48
\* repaid over 24 months stands at 24 after a year.
C13_WitnessNoInterest ==
    /\ Returned
    /\ call.fn = "buildMortgageBalances"
    /\ call.loanAmount = Num(48)
    /\ call.annualRate = Zero
    /\ call.termYears = Num(2)
    /\ call.years > 1
    /\ returned.balances[2] = Num(24)
    /\ MonthlyTraceBalance(call.loanAmount, call.annualRate, call.termYears, 12)
           = Num(24)

\* At 1200% a year over 13 months the monthly trace of 8191 still owes 4096
\* after twelve payments of 8192, but the balance of year index 1 is 0.
C13_WitnessDiverges ==
    /\ Returned
    /\ call.fn = "buildMortgageBalances"
    /\ call.loanAmount = Num(8191)
    /\ call.annualRate = Num(1200)
    /\ call.termYears = Rat(13, 12)
    /\ call.years > 1
    /\ returned.annualDebtService = Num(12 * 8192)
    /\ returned.balances[2] = Zero
    /\ MonthlyTraceBalance(call.loanAmount, call.annualRate, call.termYears, 12)
           = Num(4096)

MortgageReturned == Returned /\ call.fn = "calculateMortgage"
PositivePrincipal == RGt(safeNumber(call.mortgageAmount), Zero)
ZeroRate == RLeq(safeNumber(call.interestRate), Zero)
PositiveRate == RGt(safeNumber(call.interestRate), Zero)
Accelerated ==
    call.paymentFrequency \in { "accelerated-bi-weekly", "accelerated-weekly" }

\* round(years * paymentsPerYear) for the call's frequency.
RoundedPeriods(nYears) ==
    MathRound(RMul(safeNumber(nYears), Num(paymentsPerYear(call.paymentFrequency))))

C14_WitnessAccelerated ==
    /\ MortgageReturned
    /\ call.mortgageAmount = Num(90)
    /\ call.interestRate = Zero
    /\ call.paymentFrequency = "accelerated-weekly"
    /\ call.amortizationYears = Rat(3, 104)
    /\ returned.payment = Rat(45, 4)

\* Payments made so far in the period loop: the pass that empties the
\* balance leaves the loop before the counter moves.
PeriodsPaid == locals.period + (IF callPc = "exit" THEN 1 ELSE 0)

\* C15: with positive principal, rate, amortization and term the balance
\* never rises from one period to the next, is never negative, is 0 once
\* round(amortizationYears * paymentsPerYear) periods are paid, and so
\* balanceAfterTerm is 0 whenever termYears >= amortizationYears.
C15_BalanceAmortizes ==
    [][ (/\ call.fn = "calculateMortgage"
         /\ callPc = "loop"
         /\ PositivePrincipal
         /\ PositiveRate
         /\ RGt(safeNumber(call.amortizationYears), Zero)
         /\ RGt(safeNumber(call.termYears), Zero)) =>
            /\ RLeq(locals'.balance, locals.balance)
            /\ RGeq(locals'.balance, Zero)
            /\ PeriodsPaid' >= RoundedPeriods(call.amortizationYears) =>
                   locals'.balance = Zero
            /\ (/\ callPc' = "returned"
                /\ RGeq(safeNumber(call.termYears),
                        safeNumber(call.amortizationYears))) =>
                   returned'.balanceAfterTerm = Zero ]_vars

\* An accelerated-bi-weekly loan of 90 at a periodic rate of 100% over one
\* period: the payment of 90 only covers the interest and the balance is
\* still 90 after the term of one period.
C15_WitnessNeverRepaid ==
    /\ MortgageReturned
    /\ call.paymentFrequency = "accelerated-bi-weekly"
    /\ call.mortgageAmount = Num(90)
    /\ PositiveRate
    /\ call.amortizationYears = Rat(2, 52)
    /\ call.termYears = Rat(2, 52)
    /\ returned.payment = Num(90)
    /\ returned.balanceAfterTerm = Num(90)

\* A plain bi-weekly loan over two periods is repaid by the second payment.
C15_WitnessRepaid ==
    /\ MortgageReturned
    /\ call.paymentFrequency = "bi-weekly"
    /\ call.mortgageAmount = Num(90)
    /\ PositiveRate
    /\ call.amortizationYears = Rat(3, 52)
    /\ locals.period = 1
    /\ returned.payment = Num(120)
    /\ returned.balanceAfterTerm = Zero

\* The payment calculateMortgage returns for the call at the monthly
\* frequency.
MonthlyFrequencyPayment ==
    MortgageLocals([call EXCEPT !.paymentFrequency = "monthly"]).payment

\* C16: for the same amount, rate and amortization the accelerated-bi-weekly
\* payment is one half, and the accelerated-weekly payment one quarter, of
\* the payment returned for the monthly frequency.  Stated for the rates at
\* which the monthly periodic rate is 0.
C16_AcceleratedFromMonthly ==
    (MortgageReturned /\ PositivePrincipal /\ ZeroRate) =>
        /\ call.paymentFrequency = "accelerated-bi-weekly" =>
               returned.payment = RDiv(MonthlyFrequencyPayment, Num(2))
        /\ call.paymentFrequency = "accelerated-weekly" =>
               returned.payment = RDiv(MonthlyFrequencyPayment, Num(4))

\* 90 over three bi-weekly periods (one monthly period): the monthly payment
\* is 90, the accelerated-bi-weekly payment is 15.
C16_WitnessHalfOfBiWeekly ==
    /\ MortgageReturned
    /\ call.paymentFrequency = "accelerated-bi-weekly"
    /\ call.mortgageAmount = Num(90)
    /\ call.interestRate = Zero
    /\ MonthlyFrequencyPayment = Num(90)
    /\ locals.periods = 3
    /\ returned.payment = Num(15)

\* The case of C17: positive principal and rate, a plain frequency and a
\* term shorter than the amortization.
ShortTermCase ==
    /\ MortgageReturned
    /\ PositivePrincipal
    /\ PositiveRate
    /\ ~Accelerated
    /\ RGt(safeNumber(call.termYears), Zero)
    /\ RLt(safeNumber(call.termYears), safeNumber(call.amortizationYears))

PartlyRepaid ==
    /\ RGt(returned.payment, Zero)
    /\ RGt(returned.totalInterestTerm, Zero)
    /\ RGt(returned.balanceAfterTerm, Zero)
    /\ RLt(returned.balanceAfterTerm, safeNumber(call.mortgageAmount))

\* C17 as stated: positive principal and rate, a plain frequency and
\* 0 < termYears < amortizationYears give payment > 0, totalInterestTerm > 0
\* and 0 < balanceAfterTerm < principal.
C17_ShortTermLeavesBalance == ShortTermCase => PartlyRepaid

\* C17, amended: the same, when the term also counts fewer payment periods
\* than the amortization: max(1, round(termYears * paymentsPerYear)) <
\* round(amortizationYears * paymentsPerYear).
C17_FewerPeriodsLeavesBalance ==
    (ShortTermCase
        /\ IntMax(1, RoundedPeriods(call.termYears))
               < RoundedPeriods(call.amortizationYears)) => PartlyRepaid

\* 90 at a monthly periodic rate of 100% over two periods, term one period:
\* of the payment of 120, 90 is interest and 60 stays owed.
C17_Witness ==
    /\ ShortTermCase
    /\ call.paymentFrequency = "monthly"
    /\ call.mortgageAmount = Num(90)
    /\ call.amortizationYears = Rat(3, 24)
    /\ call.termYears = Rat(2, 24)
    /\ returned = [payment |-> Num(120), totalInterestTerm |-> Num(90),
                   balanceAfterTerm |-> Num(60)]

\* A term of half a period on an amortization of one period: both count one
\* period and nothing stays owed.
C17_WitnessRoundedTerm ==
    /\ ShortTermCase
    /\ call.termYears = Rat(1, 24)
    /\ call.amortizationYears = Rat(2, 24)
    /\ returned.balanceAfterTerm = Zero

\* C18: with a principal that is <= 0 or not finite calculateMortgage returns
\* payment, totalInterestTerm and balanceAfterTerm 0, and calculateMonthlyPayment
\* and calculateDebtService return 0 (also as the debt service of
\* calculateNewMetrics and of buildMortgageBalances), whatever the rate, the
\* term and the frequency.
C18_NoPrincipalNoDebtService ==
    Returned =>
        /\ (call.fn = "calculateMortgage" /\ ~PositivePrincipal) =>
               returned = [payment |-> Zero, totalInterestTerm |-> Zero,
                           balanceAfterTerm |-> Zero]
        /\ (/\ call.fn \in { "calculateMonthlyPayment", "calculateDebtService" }
            /\ ~RGt(safeNumber(call.loanAmount), Zero)) =>
               returned = Zero
        /\ (/\ call.fn = "buildMortgageBalances"
            /\ ~RGt(safeNumber(call.loanAmount), Zero)) =>
               returned.annualDebtService = Zero
        /\ (/\ call.fn = "calculateNewMetrics"
            /\ ~RGt(RSub(safeNumber(call.purchasePrice),
                         RMul(Percent(call.downPaymentPercent),
                              safeNumber(call.purchasePrice))), Zero)) =>
               returned.debtServiceMonthly = Zero

\* A negative mortgage amount at a positive rate.
C18_Witness ==
    /\ MortgageReturned
    /\ call.mortgageAmount = Num(-90)
    /\ PositiveRate
    /\ call.paymentFrequency = "bi-weekly"
    /\ returned.payment = Zero
    /\ returned.balanceAfterTerm = Zero

\* A loan amount that is not finite, at 1200%, through the debt-service
\* helper.
C18_WitnessHelper ==
    /\ Returned
    /\ call.fn = "calculateDebtService"
    /\ call.loanAmount = NEGATIVE_INFINITY
    /\ call.annualRate = Num(1200)
    /\ returned = Zero

(***************************************************************************)
(* Properties of the metrics functions and of calculateInvestment.         *)
(***************************************************************************)
\* A record of numbers with every NaN and infinity replaced by 0.
Coerced(r) == [f \in DOMAIN r |-> safeNumber(r[f])]

\* The call with every numeric argument that is not finite replaced by 0.
CoercedCall(c) ==
    CASE c.fn = "calculateMortgage" ->
             [c EXCEPT !.mortgageAmount = safeNumber(@),
                       !.interestRate = safeNumber(@),
                       !.amortizationYears = safeNumber(@),
                       !.termYears = safeNumber(@)]
      [] c.fn = "calculateCurrentMetrics" ->
             [c EXCEPT !.rent = safeNumber(@),
                       !.otherIncome = safeNumber(@),
                       !.vacancyPercent = safeNumber(@),
                       !.expenses = Coerced(@),
                       !.loanBalance = safeNumber(@),
                       !.interestRate = safeNumber(@),
                       !.monthlyPayment = safeNumber(@),
                       !.salePrice = safeNumber(@),
                       !.sellingCostPercent = safeNumber(@)]
      [] c.fn = "calculateNewMetrics" ->
             [c EXCEPT !.purchasePrice = safeNumber(@),
                       !.closingCosts = safeNumber(@),
                       !.closingCostsPercent = safeNumber(@),
                       !.rehab = safeNumber(@),
                       !.downPaymentPercent = safeNumber(@),
                       !.interestRate = safeNumber(@),
                       !.loanTermYears = safeNumber(@),
                       !.rent = safeNumber(@),
                       !.otherIncome = safeNumber(@),
                       !.vacancyPercent = safeNumber(@),
                       !.expenses = Coerced(@)]
      [] c.fn = "calculateInvestment" ->
             [c EXCEPT !.price = safeNumber(@),
                       !.rentRange = Coerced(@),
                       !.expenses = Coerced(@),
                       !.mortgagePaymentAnnual = safeNumber(@)]
      [] OTHER -> c

ExportedCalculators ==
    { "calculateMortgage", "calculateCurrentMetrics", "calculateNewMetrics",
      "calculateInvestment" }

\* The numbers among the fields of a returned record are all finite.
FiniteFields(r) ==
    \A f \in DOMAIN r : f = "verdict" \/ IsFinite(r[f])

\* C19: a call of an exported calculator with NaN or an infinity among its
\* numeric arguments returns what the call with those arguments at 0
\* returns, and no returned number is NaN or infinite.
C19_NonFiniteInputsActAsZero ==
    (Returned /\ call.fn \in ExportedCalculators) =>
        /\ FiniteFields(returned)
        /\ IF call.fn = "calculateMortgage"
           THEN \E l \in { MortgageLocals(CoercedCall(call)) } :
                    /\ locals.principal = l.principal
                    /\ locals.periods = l.periods
                    /\ locals.rate = l.rate
                    /\ locals.payment = l.payment
                    /\ locals.termPeriods = l.termPeriods
           ELSE returned = Apply(CoercedCall(call))

\* calculateInvestment with a mortgage payment that is not a number: the
\* annual cash flow is not a number either, instead of the NOI of 120.
C19_WitnessInvestment ==
    /\ Returned
    /\ call.fn = "calculateInvestment"
    /\ call.mortgagePaymentAnnual = NaN
    /\ returned.noiAnnual = Num(120)
    /\ returned.cashFlowAnnual = NaN
    /\ Apply(CoercedCall(call)).cashFlowAnnual = Num(120)

\* calculateCurrentMetrics with a rent, taxes and percentages that are not
\* finite returns what it returns with them at 0.
C19_WitnessMetrics ==
    /\ Returned
    /\ call.fn = "calculateCurrentMetrics"
    /\ call.rent = NaN
    /\ call.expenses = BrokenExpenses
    /\ call.salePrice = NaN
    /\ CoercedCall(call) # call
    /\ returned = Apply(CoercedCall(call))

\* C20: capRate is 0 when the value (salePrice, purchasePrice, price) is
\* <= 0, cashOnCash is 0 when cashInvested <= 0 and dscr is 0 when
\* mortgagePaymentAnnual <= 0; with rent, other income, every expense and
\* the value at 0, grossMonthlyIncome, noiAnnual and capRate are 0.
C20_RatiosGuarded ==
    Returned =>
        /\ call.fn = "calculateCurrentMetrics" =>
            /\ RLeq(safeNumber(call.salePrice), Zero) => returned.capRate = Zero
            /\ RLeq(returned.cashInvested, Zero) => returned.cashOnCash = Zero
            /\ (/\ call.rent = Zero
                /\ call.otherIncome = Zero
                /\ call.expenses = NoExpenses
                /\ call.salePrice = Zero) =>
                   /\ returned.grossMonthlyIncome = Zero
                   /\ returned.noiAnnual = Zero
                   /\ returned.capRate = Zero
        /\ call.fn = "calculateNewMetrics" =>
            /\ RLeq(safeNumber(call.purchasePrice), Zero) =>
                   returned.capRate = Zero
            /\ RLeq(returned.cashInvested, Zero) => returned.cashOnCash = Zero
            /\ (/\ call.rent = Zero
                /\ call.otherIncome = Zero
                /\ call.expenses = NoExpenses
                /\ call.purchasePrice = Zero) =>
                   /\ returned.grossMonthlyIncome = Zero
                   /\ returned.noiAnnual = Zero
                   /\ returned.capRate = Zero
        /\ call.fn = "calculateInvestment" =>
            /\ RLeq(call.price, Zero) => returned.capRate = Zero
            /\ RLeq(call.mortgagePaymentAnnual, Zero) => returned.dscr = Zero
            /\ (/\ call.rentRange.median = Zero
                /\ call.expenses = NoInvestmentExpenses
                /\ call.price = Zero) =>
                   /\ returned.noiAnnual = Zero
                   /\ returned.capRate = Zero

\* A property worth nothing, under water, with income: the cap rate and the
\* cash-on-cash return are 0 although NOI and cash flow are not.
C20_Witness ==
    /\ Returned
    /\ call.fn = "calculateCurrentMetrics"
    /\ call.salePrice = Zero
    /\ returned.noiAnnual # Zero
    /\ returned.cashFlowAnnual # Zero
    /\ returned.cashInvested = Zero
    /\ returned.capRate = Zero
    /\ returned.cashOnCash = Zero

\* A negative price and a negative mortgage payment in calculateInvestment.
C20_WitnessInvestment ==
    /\ Returned
    /\ call.fn = "calculateInvestment"
    /\ call.price = Num(-1000)
    /\ call.mortgagePaymentAnnual = Num(-60)
    /\ returned.noiAnnual # Zero
    /\ returned.capRate = Zero
    /\ returned.dscr = Zero

\* Nothing in, nothing out.
C20_WitnessAllZero ==
    /\ Returned
    /\ call.fn = "calculateNewMetrics"
    /\ call.rent = Zero
    /\ call.expenses = NoExpenses
    /\ call.purchasePrice = Zero
    /\ returned.grossMonthlyIncome = Zero
    /\ returned.noiAnnual = Zero

(***************************************************************************)
(* Properties of calculateComparison, buildMortgageBalances and the        *)
(* verdict of calculateInvestment.                                         *)
(***************************************************************************)
ComparisonReturned == Returned /\ call.fn = "calculateComparison"

\* C24: calculateComparison returns saleNetProceeds equal to
\* current.cashInvested, which is max(0, salePrice - sellingCost% * salePrice
\* - loanBalance); newMonthlyPayment equal to next.debtServiceMonthly;
\* newLoanAmount equal to max(0, purchasePrice - downPayment% * purchasePrice);
\* and current and next equal to what calculateCurrentMetrics and
\* calculateNewMetrics return for the same inputs.
C24_ComparisonReusesMetrics ==
    ComparisonReturned =>
        LET salePrice == safeNumber(call.currentInput.salePrice)
            purchasePrice == safeNumber(call.newInput.purchasePrice)
        IN  /\ returned.current = calculateCurrentMetrics(call.currentInput)
            /\ returned.next = calculateNewMetrics(call.newInput)
            /\ returned.saleNetProceeds = returned.current.cashInvested
            /\ returned.saleNetProceeds =
                   MathMax(Zero,
                       RSub(RSub(salePrice,
                                 RDiv(RMul(safeNumber(
                                     call.currentInput.sellingCostPercent),
                                     salePrice), Hundred)),
                            safeNumber(call.currentInput.loanBalance)))
            /\ returned.newMonthlyPayment = returned.next.debtServiceMonthly
            /\ returned.newLoanAmount =
                   MathMax(Zero,
                       RSub(purchasePrice,
                            RDiv(RMul(safeNumber(
                                call.newInput.downPaymentPercent),
                                purchasePrice), Hundred)))

\* A sale at 1000 with 5% selling costs and a loan of 500 leaves 450; the
\* purchase at 1200 with 20% down borrows 960 and pays 40 a month
\* over two years without interest.
C24_Witness ==
    /\ ComparisonReturned
    /\ returned.saleNetProceeds = Num(450)
    /\ returned.current.cashInvested = Num(450)
    /\ returned.newLoanAmount = Num(960)
    /\ returned.newMonthlyPayment = Num(40)

\* The loan is larger than the sale pays: the proceeds are floored at 0.
C24_WitnessUnderwater ==
    /\ ComparisonReturned
    /\ call.currentInput.salePrice = Num(1000)
    /\ call.currentInput.loanBalance = Num(2000)
    /\ returned.saleNetProceeds = Zero

BalancesReturned == Returned /\ call.fn = "buildMortgageBalances"

C25_WitnessInterest ==
    /\ BalancesReturned
    /\ call.annualRate = Num(1200)
    /\ call.termYears = Rat(13, 12)
    /\ Len(returned.balances) >= 2
    /\ returned.balances[1] = Num(8191)
    /\ returned.balances[2] = Zero

InvestmentReturned == Returned /\ call.fn = "calculateInvestment"

\* The mortgage payments a call of calculateInvestment is compared with.
OtherPayments == { c.mortgagePaymentAnnual : c \in InvestmentCalls }

\* C26: calculateInvestment returns Excellent exactly when capRate >= 0.045,
\* Good exactly when 0.03 <= capRate < 0.045 and Weak otherwise, where capRate
\* is NOI / price; for a price <= 0 the cap rate is 0 and the verdict Weak
\* whatever rent and expenses are; and the verdict is the same for every
\* mortgage payment.
C26_VerdictFromCapRate ==
    InvestmentReturned =>
        /\ returned.verdict \in { "Excellent", "Good", "Weak" }
        /\ returned.verdict = "Excellent" <=> RGeq(returned.capRate, Rat(45, 1000))
        /\ returned.verdict = "Good" <=>
               /\ RGeq(returned.capRate, Rat(3, 100))
               /\ RLt(returned.capRate, Rat(45, 1000))
        /\ RGt(call.price, Zero) =>
               returned.capRate = RDiv(returned.noiAnnual, call.price)
        /\ RLeq(call.price, Zero) =>
               returned.capRate = Zero /\ returned.verdict = "Weak"
        /\ \A payment \in OtherPayments :
               calculateInvestment(call.price, call.rentRange, call.expenses,
                                   payment).verdict = returned.verdict

\* An NOI of 180 on a price of 4000 is a cap rate of exactly 0.045.
C26_Witness ==
    /\ InvestmentReturned
    /\ call.price = Num(4000)
    /\ returned.noiAnnual = Num(180)
    /\ returned.capRate = Rat(45, 1000)
    /\ returned.verdict = "Excellent"

\* An NOI of 120 on a price of 4000 is a cap rate of exactly 0.03.
C26_WitnessGood ==
    /\ InvestmentReturned
    /\ returned.capRate = Rat(3, 100)
    /\ returned.verdict = "Good"

\* A positive NOI on a negative price.
C26_WitnessNoPrice ==
    /\ InvestmentReturned
    /\ call.price = Num(-1000)
    /\ returned.noiAnnual = Num(120)
    /\ returned.verdict = "Weak"

(***************************************************************************)
(* Properties of the listing-extract handler.                              *)
(***************************************************************************)
PostFinished == call.fn = "POST" /\ callPc \in { "returned", "threw" }

\* The member of the request's body, Absent when the body has none.
BodyMember(name) ==
    IF call.body = NotJson \/ call.body = Absent THEN Absent
    ELSE call.body[name]

\* Absent, or blank after trimming.
Blank(member, blank(_)) ==
    ~IsStr(member) \/ Trim(member.str, blank) = << >>

\* C27: the POST handler answers every request with exactly one of: status
\* 400 and 'Missing url or html' when url and html are both absent or blank
\* after trimming; a data payload whenever html is not blank; status 400 and
\* a provider-not-configured error when only url is not blank.  In a data
\* payload the confidence of price is 'high' exactly when the price is not 0
\* and 'low' otherwise, no other confidence is 'high', hoa and rentRange are
\* 'low' and rentRange.median is 0.
C27_PostAnswersEveryRequest ==
    PostFinished =>
        LET noUrl == Blank(BodyMember("url"), IsBlankChar)
            noHtml == Blank(BodyMember("html"), IsSpace)
            confidence == returned.data.confidence
        IN  /\ ~Threw(returned)
            /\ (noUrl /\ noHtml) =>
                   /\ returned.status = 400
                   /\ returned.error = "Missing url or html"
            /\ ~noHtml =>
                   /\ "data" \in DOMAIN returned
                   /\ confidence.price =
                          IF returned.data.price # Zero THEN "high" ELSE "low"
                   /\ \A name \in DOMAIN confidence \ { "price" } :
                          confidence[name] \in { "medium", "low" }
                   /\ confidence.hoa = "low"
                   /\ confidence.rentRange = "low"
                   /\ returned.data.rentRange.median = Zero
            /\ (~noUrl /\ noHtml) =>
                   /\ returned.status = 400
                   /\ returned.error =
                          "Provider connection not configured for URL fetch."

\* A page whose listing has a price of "1,100": price 1100, confidence high.
C27_WitnessPrice ==
    /\ PostFinished
    /\ "data" \in DOMAIN returned
    /\ returned.data.price = Num(1100)
    /\ returned.data.confidence.price = "high"

\* The body of the request is not JSON: req.json() throws.
C27_WitnessNotJson ==
    /\ PostFinished
    /\ call.body = NotJson
    /\ returned = SyntaxError

(***************************************************************************)
(* Properties of repeated calls of calculateDecision.                      *)
(***************************************************************************)
\* The parts of two results that the caller compares.
SameOutcome(a, b) ==
    /\ a.decision = b.decision
    /\ a.breakEvenAge = b.breakEvenAge
    /\ a.peakDeltaAge = b.peakDeltaAge
    /\ a.peakDeltaValue = b.peakDeltaValue
    /\ Len(a.currentSeries) = Len(b.currentSeries)
    /\ \A k \in 1..Len(a.currentSeries) : a.currentSeries[k] = b.currentSeries[k]
    /\ Len(a.newSeries) = Len(b.newSeries)
    /\ \A k \in 1..Len(a.newSeries) : a.newSeries[k] = b.newSeries[k]
    /\ Len(a.series) = Len(b.series)
    /\ \A k \in 1..Len(a.series) : a.series[k] = b.series[k]

\* Every call that has returned agrees with every earlier call of the same
\* input.
RepeatedCallsAgree ==
    /\ \A a \in earlier : \A b \in earlier :
           a.input = b.input => SameOutcome(a.result, b.result)
    /\ pc = "done" =>
           \A a \in earlier : a.input = input => SameOutcome(a.result, result)

\* C21: calculateDecision is deterministic and keeps no state across calls:
\* two calls with identical inputs, in any order and with any other calls in
\* between, return equal decision, breakEvenAge, peakDeltaAge, peakDeltaValue
\* and element-wise equal currentSeries, newSeries and series; and a running
\* call does not modify its input record.
C21_DecisionDeterministic ==
    /\ []RepeatedCallsAgree
    /\ [][pc # "done" => input' = input]_vars

\* The same input has returned a second time, after a call with another
\* input and more years in between.
C21_Witness ==
    /\ pc = "done"
    /\ result.decision \in { "YES", "NO" }
    /\ \E a \in earlier : a.input = input /\ Len(a.result.series) = 1
    /\ \E b \in earlier : b.input # input /\ Len(b.result.series) = MaxSpan + 1

(***************************************************************************)
(* Properties of the persistence adapters.                                 *)
(***************************************************************************)
\* C22: NoopStorage.load returns null after any sequence of saves;
\* LocalStorageStub.load in a browser returns null before any save or when
\* the stored text is not parsable JSON, and otherwise a state equal to the
\* argument of the most recent save; and no load rejects because of missing
\* or corrupt stored data.
C22_LoadReturnsLastSave ==
    [][ /\ NoopLoad => loaded'.value = JsonNull
        /\ LocalLoad => ~Threw(loaded'.value)
        /\ (LocalLoad /\ hasWindow) =>
               IF localStorage \in { Absent, EmptyText, CorruptText }
               THEN loaded'.value = JsonNull
               ELSE saved.LocalStorageStub # Absent =>
                        loaded'.value = saved.LocalStorageStub ]_vars

\* A state of finite numbers came back as it was saved.
C22_WitnessFinite ==
    /\ hasWindow
    /\ loaded.adapter = "LocalStorageStub"
    /\ loaded.value = saved.LocalStorageStub
    /\ loaded.value.current.salePrice = Num(1000)

\* A sale price of NaN came back as null.
C22_WitnessNaN ==
    /\ hasWindow
    /\ loaded.adapter = "LocalStorageStub"
    /\ saved.LocalStorageStub # Absent
    /\ saved.LocalStorageStub.current.salePrice = NaN
    /\ loaded.value # JsonNull
    /\ loaded.value.current.salePrice = JsonNull

(***************************************************************************)
(* Properties of the Wizard.                                               *)
(***************************************************************************)
WizardStepInRange == wizard.step \in 0 .. 3

\* Continue moved the wizard to another step.
WizardAdvanced == WizardContinue /\ wizard'.step # wizard.step

WizardNeverAdvancesInvalid ==
    [][WizardAdvanced => isStepValid(wizard) /\ wizard'.step = wizard.step + 1]_vars

\* Continue was refused on the step on screen.
WizardRefused == wizard.showErrors /\ ~isStepValid(wizard)

WizardRefusalShown ==
    WizardRefused =>
        \E field \in WizardFields[wizard.step] : FieldInvalid(wizard, field)

\* C28: after any sequence of edits, Back and Continue clicks the step stays
\* within 0..3, Continue never advances from a step whose required fields
\* are not all valid, and whenever Continue is refused on a step some field
\* rendered on that step is marked invalid.
C28_WizardShowsWhatToFix ==
    /\ []WizardStepInRange
    /\ WizardNeverAdvancesInvalid
    /\ []WizardRefusalShown

\* The wizard is on the assumptions step with a growth rate of 0 and a
\* refused Continue.
C28_RefusedOnGrowthRate ==
    /\ wizard.mounted
    /\ wizard.step = 1
    /\ WizardRefused
    /\ wizard.inputs.currentGrowthRate = Zero
    /\ RGt(wizard.inputs.marginalTaxRate, Zero)

(***************************************************************************)
(* Properties of the Rental Purchase Verdict page.  Every state of         *)
(* SpecVerdict is a settled one: an action is a handler together with the  *)
(* effects of the render that follows it.                                  *)
(***************************************************************************)
MortgageSynced ==
    verdictPage.autoSyncMortgage =>
        verdictPage.mortgage.mortgageAmount = verdictPage.price

PriceChangeLeavesMortgage ==
    [][(~verdictPage.autoSyncMortgage /\ verdictPage'.price # verdictPage.price)
          => verdictPage'.mortgage.mortgageAmount
                 = verdictPage.mortgage.mortgageAmount]_vars

\* C29: in every settled state the mortgage amount equals the listing price
\* while auto-sync is enabled, and with auto-sync disabled a change of the
\* price leaves the mortgage amount as it is.
C29_MortgageFollowsPrice == []MortgageSynced /\ PriceChangeLeavesMortgage

\* Auto-sync is enabled and the mortgage amount was typed over.
C29_TypedOverWhileSynced ==
    /\ verdictPage.mounted
    /\ verdictPage.autoSyncMortgage
    /\ verdictPage.price = Num(1100000)
    /\ verdictPage.mortgage.mortgageAmount = Num(500)

\* The effect has brought the mortgage amount to a price that was typed.
C29_SyncedAfterPriceEdit ==
    /\ verdictPage.mounted
    /\ verdictPage.autoSyncMortgage
    /\ verdictPage.price = Num(500)
    /\ verdictPage.mortgage.mortgageAmount = Num(500)

AutoFillLoading == verdictPage.autoFillState = "loading"
AutoFillIdle == verdictPage.autoFillState = "idle"

\* At most one run waits for its response, and the state says so.
OneRunInFlight ==
    /\ Len(verdictPage.runs) <= 1
    /\ AutoFillLoading <=> Len(verdictPage.runs) = 1

ListingFields(p) ==
    << p.address, p.city, p.price, p.bedrooms, p.bathrooms, p.sqft, p.hoa,
       p.rentRange, p.autoFillConfidence >>

\* A run starts only from the idle state, with a url or html that is not
\* blank.
AutoFillStartsIdle ==
    [][AutoFillStart =>
          /\ AutoFillIdle
          /\ verdictPage.listingUrl \notin { << >>, << " " >> }
                 \/ verdictPage.listingHtml # << >>
          /\ verdictPage'.autoFillState = "loading"
          /\ verdictPage'.autoFillError = Absent]_vars

\* A failed run tells the error and leaves the step and the listing alone.
AutoFillFailureKeepsListing ==
    [][(AutoFillErrorPayload \/ AutoFillThrows) =>
          /\ verdictPage'.autoFillState = "idle"
          /\ verdictPage'.autoFillError # Absent
          /\ verdictPage'.step = verdictPage.step
          /\ ListingFields(verdictPage') = ListingFields(verdictPage)]_vars

\* The listing of the next state is the one of the extract.
ExtractApplied(data) ==
    /\ verdictPage'.address = data.address
    /\ verdictPage'.bedrooms = data.bedrooms
    /\ verdictPage'.bathrooms = data.bathrooms
    /\ verdictPage'.sqft = data.sqft
    /\ verdictPage'.price = data.price
    /\ verdictPage'.hoa = data.hoa
    /\ verdictPage'.autoFillConfidence = data.confidence
    /\ verdictPage'.city.label =
           IF data.city \in { "Vancouver", "Coquitlam", "Port Moody", "Port Coquitlam" }
           THEN data.city ELSE verdictPage.city.label
    /\ verdictPage'.rentRange.median =
           IF RGt(data.rentRange.median, Zero) THEN data.rentRange.median
           ELSE RMul(data.price, Rat(3, 1000))

\* A successful run applies the extract and moves one step on, the last
\* step excepted.
AutoFillSuccessApplies ==
    [][AutoFillSuccess =>
          /\ verdictPage'.autoFillState = "idle"
          /\ verdictPage'.autoFillError = Absent
          /\ verdictPage'.step =
                 IF verdictPage.step = 5 THEN 5 ELSE verdictPage.step + 1
          /\ \E data \in Extracts : ExtractApplied(data)]_vars

\* C30: every run of handleAutoFill that starts brings autoFillState back
\* to "idle", whether the request succeeds, answers with an error payload
\* or throws; at most one run is in flight; a failure sets autoFillError and
\* leaves the step and the listing fields unchanged; a success applies the
\* extract and advances the step by one, never beyond the last step.
C30_AutoFillSettles ==
    /\ AutoFillLoading ~> AutoFillIdle
    /\ []OneRunInFlight
    /\ AutoFillStartsIdle
    /\ AutoFillFailureKeepsListing
    /\ AutoFillSuccessApplies

\* A run has succeeded from the first step.
C30_Witness ==
    /\ verdictPage.mounted
    /\ AutoFillIdle
    /\ verdictPage.step = 1
    /\ verdictPage.autoFillError = Absent
    /\ verdictPage.autoFillConfidence.price = "high"
    /\ verdictPage.price = Num(4000)
    /\ verdictPage.address = << "A" >>

\* A run has failed.
C30_WitnessFailed ==
    /\ verdictPage.mounted
    /\ AutoFillIdle
    /\ verdictPage.autoFillError = [message |-> "Failed to fetch"]
    /\ verdictPage.price = Num(1100000)

\* A run has succeeded on the last step.
C30_WitnessLastStep ==
    /\ verdictPage.mounted
    /\ AutoFillIdle
    /\ verdictPage.step = 5
    /\ verdictPage.autoFillConfidence.price = "high"
    /\ verdictPage.edits = 1

\* The state without the confidence levels.
Blind(p) == [p EXCEPT !.autoFillConfidence = NoConfidence]

\* The event with every choice of the confidence levels of its extract, if
\* it carries one.
WithAnyConfidence(e) ==
    IF e.kind = "success"
    THEN { [e EXCEPT !.data.confidence = confidence] : confidence \in Confidences }
    ELSE { e }

\* Whatever the confidence levels on the page and in the extract, the same
\* events can happen and they lead to the same state, the levels apart.
ConfidenceIgnored ==
    \A e \in Events :
        Can(verdictPage, e) =>
            \E seen \in { Blind(After(verdictPage, e)) } :
                \A shown \in Confidences \cup { NoConfidence } :
                    \E q \in { [verdictPage EXCEPT !.autoFillConfidence = shown] } :
                        \A f \in WithAnyConfidence(e) :
                            /\ Can(q, f)
                            /\ Blind(After(q, f)) = seen

\* The annual debt service the results are compared for.
DebtService == Num(1200)

\* The calculators are called with the same arguments and give the same
\* results whatever the confidence levels on the page.
ResultsIgnoreConfidence ==
    \E arguments \in { investmentArguments(verdictPage) } :
        \E results \in { investment(verdictPage, DebtService) } :
            \A shown \in Confidences \cup { NoConfidence } :
                \E q \in { [verdictPage EXCEPT !.autoFillConfidence = shown] } :
                    /\ investmentArguments(q) = arguments
                    /\ investment(q, DebtService) = results

\* The edits of the fields that applyExtract fills.
ExtractedFieldEdits ==
    { e \in EditEvents :
        e.kind \in { "address", "city", "price", "listing", "rentRange" } }

\* The step that shows the field of the edit, the field's value in the
\* state p and the value the edit stands for.
StepOfEdit(e) == IF e.kind = "rentRange" THEN 2 ELSE 1

FieldOfEdit(p, e) ==
    CASE e.kind = "address" -> Str(p.address)
      [] e.kind = "city" -> Str(p.city.label)
      [] e.kind = "price" -> JsonNum(p.price)
      [] e.kind = "listing" -> JsonNum(p[e.field])
      [] e.kind = "rentRange" -> JsonNum(p.rentRange[e.member])

ValueOfEdit(e) ==
    CASE e.kind = "address" -> Str(e.text)
      [] e.kind = "city" -> Str(e.label)
      [] e.text = << >> -> JsonNum(Zero)
      [] e.text = << "3" >> -> JsonNum(Num(3))
      [] e.text = << "5", "0", "0" >> -> JsonNum(Num(500))

\* On its step every extracted field takes the value that is typed.
FieldsEditable ==
    \A e \in ExtractedFieldEdits :
        verdictPage.step = StepOfEdit(e) =>
            /\ Can(verdictPage, e)
            /\ FieldOfEdit(After(verdictPage, e), e) = ValueOfEdit(e)

\* C23: the inputs and the results of the calculators depend on the values
\* of the fields only, never on the confidence levels of an extract: two
\* visits that differ in confidence levels only go through the same states,
\* and every extracted field can be edited afterwards.
C23_ConfidenceNeverTrusted ==
    verdictPage.mounted =>
        /\ ConfidenceIgnored
        /\ ResultsIgnoreConfidence
        /\ FieldsEditable

\* An extract of low confidence was applied and its price typed over.
C23_Witness ==
    /\ verdictPage.mounted
    /\ verdictPage.autoFillConfidence.price = "low"
    /\ verdictPage.address = << "A" >>
    /\ verdictPage.hoa = Num(100)
    /\ verdictPage.price = Num(500)
    /\ investment(verdictPage, Zero).noiAnnual # investment(PageMounted, Zero).noiAnnual

\* An extract of high confidence was applied.
C23_WitnessHigh ==
    /\ verdictPage.mounted
    /\ verdictPage.autoFillConfidence.price = "high"
    /\ verdictPage.price = Num(4000)
    /\ verdictPage.rentRange.median = Num(15)

=============================================================================
